---------------------------- MODULE Spec2Model ----------------------------
(***************************************************************************)
(* Model of the dividend-yield replication pipeline:                       *)
(*   src/src/clean_data.py        (cleaning, yields, combine)              *)
(*   src/src/TABLE1_replication.py (equity yields, forward growth)         *)
(*                                                                         *)
(* A DataFrame is a record [idx, cols]: idx is the sequence of row dates   *)
(* (in row order), cols the sequence of columns [name, vals] in column     *)
(* order.  A float cell is NaN (the empty tuple) or an exact extended      *)
(* rational <<n, d>> in lowest terms, d >= 0, with <<1,0>> = +inf and      *)
(* <<-1,0>> = -inf.  Dates are day numbers.                                *)
(***************************************************************************)
EXTENDS Integers, Sequences, FiniteSets, TLC

VARIABLES
    pc,            \* position of the modelled call sequence
    df,            \* clean_*_data: the table read from the raw parquet file
    end_date,      \* clean_*_data: the end_date argument
    df_sorted,     \* clean_*_data: df after sort_index(), before ffill().bfill()
    cleaned,       \* clean_*_data: outcome, [status, df]
    refilled,      \* cleaned.df after one more ffill().bfill()
    price_data,    \* calculate_yields / combine_data argument
    dividend_data, \* calculate_yields / combine_data argument
    yield_data,    \* combine_data argument (calculate_yields result)
    combined_df,   \* combine_data outcome, [status, df]
    regrouped,     \* outcomes of combine_data under other argument orders/groupings
    oid,           \* object identity of each table name bound in the call
    div_data,      \* TABLE1: dividend table (one series per region)
    futures_data,  \* TABLE1: dividend-futures table
    equity_yields, \* calculate_equity_yields result
    reg_data,      \* prepare_regression_data: growth, yield and dummy columns
    pooled_data,   \* prepare_regression_data outcome: the pooled sample
    regression,    \* run_regression outcome
    config_use_bbg, \* config("USE_BBG")
    use_bbg,       \* the running script's module global USE_BBG
    data_manual,   \* pull script: the spreadsheets under BASE_DIR/data_manual
    index_df,      \* pull script: index table, [source, columns]
    div_df,        \* pull script: dividend table, [source, columns]
    saved,         \* pull script: the parquet files written, {[file, table]}
    calls,         \* pull script: number of calls of each fetch / loader
    pull_exit,     \* pull script: "running", "ok" or the exception that ended it
    data_dir,      \* the raw parquet files in DATA_DIR: file name -> table
    path,          \* clean_*_data: the file chosen to be read
    price_df,      \* cleaning script: cleaned index table
    dividend_df,   \* cleaning script: cleaned dividend table
    yields_df,     \* cleaning script: calculate_yields outcome, [status, df]
    artifacts,     \* cleaning script: the set of files written
    script_exit,   \* cleaning script: "running", "ok" or the exception that ended it
    rng,           \* TABLE1 main: numpy's global generator, [seed, n]
    generator,     \* TABLE1 main: which value each position of a seeded stream holds
    run,           \* TABLE1 main: number of the execution of main()
    first_run,     \* TABLE1 main: what the first execution produced
    futures_base,  \* load_dividend_futures_data: its own div_data
    main_reads,    \* TABLE1 main: the files read by the loaders
    params,        \* create_scatter_plot: results.params
    x_range,       \* create_scatter_plot: np.linspace over the yields
    y_pred,        \* create_scatter_plot: the fitted line
    forecast_file, \* figure 5: the forecast parquet file, [exists, df]
    fig5_data,     \* prepare_figure5_data outcome, [status, df]
    index_data_clean, \* calc_pct_returns: clean/index_data_clean.parquet
    cum_returns,   \* calc_pct_returns outcome, [status, df]
    imported,      \* test_clean: outcome of its import of clean_data names
    pull_runs,     \* number of pull runs started
    last_written,  \* the raw files the most recent pull run wrote
    clean_read,    \* the raw file each cleaner read, or the exception it raised
    selected,      \* doit: the tasks named on the command line
    disk,          \* doit: the files that exist
    status         \* doit: state of each task

vars == <<pc, df, end_date, df_sorted, cleaned, refilled, price_data,
          dividend_data, yield_data, combined_df, regrouped, oid,
          div_data, futures_data, equity_yields, reg_data, pooled_data,
          regression, config_use_bbg, use_bbg, data_manual, index_df, div_df,
          saved, calls, pull_exit, data_dir, path, price_df, dividend_df,
          yields_df, artifacts, script_exit, rng, generator, run, first_run,
          futures_base, main_reads, params, x_range, y_pred, forecast_file,
          fig5_data, index_data_clean, cum_returns, imported, pull_runs,
          last_written, clean_read, selected, disk, status>>

cleanVars   == <<df, end_date, df_sorted, cleaned, refilled>>
combineVars == <<price_data, dividend_data, yield_data, combined_df, regrouped, oid>>
table1Vars  == <<div_data, futures_data, equity_yields, reg_data, pooled_data,
                 regression>>
pullVars    == <<config_use_bbg, use_bbg, data_manual, index_df, div_df, saved,
                 calls, pull_exit>>
scriptVars  == <<data_dir, path, price_df, dividend_df, yields_df, artifacts,
                 script_exit>>
mainVars    == <<rng, generator, run, first_run, futures_base, main_reads>>
figureVars  == <<params, x_range, y_pred, forecast_file, fig5_data>>
testVars    == <<index_data_clean, cum_returns, imported>>
runsVars    == <<pull_runs, last_written, clean_read>>
doitVars    == <<selected, disk, status>>
laterVars   == <<mainVars, figureVars, testVars, runsVars, doitVars>>

-----------------------------------------------------------------------------
(* Bounds of the model *)

MaxRows == 3        \* rows of a raw table
MaxDate == 3        \* raw dates are day numbers 0..MaxDate

(* config.START_DATE, as a day number: day 0 lies before the window *)
START_DT == 1

Dates    == 0..MaxDate
EndDates == {START_DT + 1, START_DT + 2}

-----------------------------------------------------------------------------
(* Float cells *)

NaN == <<>>
Num(n) == <<n, 1>>
PosInf == <<1, 0>>
NegInf == <<-1, 0>>
IsNull(v) == v = NaN
NotNull(v) == v # NaN

CellVals == {NaN, Num(1), Num(2)}

RECURSIVE GCD(_, _)
GCD(a, b) == IF b = 0 THEN a ELSE GCD(b, a % b)

Abs(n) == IF n < 0 THEN -n ELSE n

(* the float n/d: 0/0 is NaN, x/0 is +-inf (signed zeros are not kept) *)
Normalise(n, d) ==
    IF d = 0
    THEN (IF n = 0 THEN NaN ELSE IF n > 0 THEN PosInf ELSE NegInf)
    ELSE LET sn == IF d < 0 THEN -n ELSE n
             sd == Abs(d)
             g  == GCD(Abs(sn), sd)
         IN  <<sn \div g, sd \div g>>

(* a / b on floats: NaN propagates *)
FloatDiv(a, b) ==
    IF IsNull(a) \/ IsNull(b) THEN NaN
    ELSE Normalise(a[1] * b[2], a[2] * b[1])

(* a - b on floats: NaN propagates, inf - inf is NaN *)
FloatSub(a, b) ==
    IF IsNull(a) \/ IsNull(b) THEN NaN
    ELSE IF a[2] = 0 /\ b[2] = 0 THEN (IF a = b THEN NaN ELSE a)
    ELSE IF a[2] = 0 THEN a
    ELSE IF b[2] = 0 THEN Normalise(-b[1], 0)
    ELSE Normalise(a[1] * b[2] - b[1] * a[2], a[2] * b[2])

-----------------------------------------------------------------------------
(* DataFrames *)

NRows(t) == Len(t.idx)
NCols(t) == Len(t.cols)
Columns(t) == {t.cols[c].name : c \in 1..NCols(t)}
EmptyFrame == [idx |-> <<>>, cols |-> <<>>]

Range(s) == {s[i] : i \in 1..Len(s)}

(* df.iloc[pos]: the rows at the given positions, in that order *)
TakeRows(t, pos) ==
    [idx  |-> [k \in 1..Len(pos) |-> t.idx[pos[k]]],
     cols |-> [c \in 1..NCols(t) |->
                 [name |-> t.cols[c].name,
                  vals |-> [k \in 1..Len(pos) |-> t.cols[c].vals[pos[k]]]]]]

(* Index.is_monotonic_increasing: non-decreasing *)
IsMonotonicIncreasing(idx) ==
    \A i \in 1..(Len(idx) - 1) : idx[i] <= idx[i + 1]

(* Index.is_unique *)
IsUnique(idx) ==
    \A i, j \in 1..Len(idx) : idx[i] = idx[j] => i = j

Positions(n) == [k \in 1..n |-> k]


-----------------------------------------------------------------------------
(* df.loc[START_DT:end_date] on a DatetimeIndex with string bounds.        *)
(* A monotonic index is sliced by position (searchsorted, both bounds      *)
(* inclusive).  Otherwise the rows are selected by the mask                *)
(* START_DT <= date <= end_date; when a bound is not itself a label of the *)
(* index this raises KeyError in pandas >= 2 and only warns before.        *)

(* variant: the end of the window is not applied *)
InWindowNoEnd(d, lo, hi) == lo <= d

InWindow(d, lo, hi) == lo <= d /\ d <= hi

WindowPositions(idx, lo, hi) ==
    SelectSeq(Positions(Len(idx)), LAMBDA k : InWindow(idx[k], lo, hi))

LocSlice(t, lo, hi) == TakeRows(t, WindowPositions(t.idx, lo, hi))

LocSliceMayRaise(t, lo, hi) ==
    /\ ~IsMonotonicIncreasing(t.idx)
    /\ (lo \notin Range(t.idx) \/ hi \notin Range(t.idx))

-----------------------------------------------------------------------------
(* Column names.  str.lower() and the substring tests of the cleaner are   *)
(* evaluated on the finite set of raw column labels of the model.          *)

IndexLabels    == {"SPX Index"}
DividendLabels == {"s&p 500 dividend"}

(* clean_index_data.column_mapping *)
IndexColumnMapping(name) ==
    CASE name = "SPX Index"      -> "SP500"
      [] name = "SX5E Index"     -> "EUROSTOXX"
      [] name = "NKY Index"      -> "NIKKEI"
      [] name = "USGG30YR Index" -> "US_30Y_YIELD"
      [] name = "GDBR30 Index"   -> "EU_30Y_YIELD"
      [] name = "GJGB30 Index"   -> "JP_30Y_YIELD"
      [] OTHER                   -> name

(* clean_dividend_data.column_mapping *)
DividendColumnMapping(name) ==
    CASE name = "SPX Index_DIV"  -> "SP500_DIV"
      [] name = "SX5E Index_DIV" -> "EUROSTOXX_DIV"
      [] name = "NKY Index_DIV"  -> "NIKKEI_DIV"
      [] OTHER                   -> name

(* 's&p' in col_lower or 'sp500' in col_lower or 'sp 500' in col_lower *)
LooksLikeSP500(name) ==
    name \in {"SP500_DIV", "s&p 500 dividend", "SP500", "SP500_YIELD"}
(* 'euro' in col_lower or 'stoxx' in col_lower *)
LooksLikeEurostoxx(name) ==
    name \in {"EUROSTOXX_DIV", "Euro Stoxx 50", "EUROSTOXX", "EUROSTOXX_YIELD"}
(* 'nikkei' in col_lower or 'japan' in col_lower *)
LooksLikeNikkei(name) ==
    name \in {"NIKKEI_DIV", "NIKKEI", "NIKKEI_YIELD"}

(* the "other possible column names" loop of clean_dividend_data *)
DividendHeuristic(name) ==
    IF LooksLikeSP500(name) THEN "SP500_DIV"
    ELSE IF LooksLikeEurostoxx(name) THEN "EUROSTOXX_DIV"
    ELSE IF LooksLikeNikkei(name) THEN "NIKKEI_DIV"
    ELSE name

(* df.rename(columns=renamed_columns) of clean_index_data: the values     *)
(* stay, the labels change                                                *)
RenameIndexColumns(t) ==
    [idx  |-> t.idx,
     cols |-> [c \in 1..NCols(t) |->
                 [name |-> IndexColumnMapping(t.cols[c].name),
                  vals |-> t.cols[c].vals]]]

(* the two renaming steps of clean_dividend_data *)
RenameDividendColumns(t) ==
    [idx  |-> t.idx,
     cols |-> [c \in 1..NCols(t) |->
                 [name |-> DividendHeuristic(DividendColumnMapping(t.cols[c].name)),
                  vals |-> t.cols[c].vals]]]

-----------------------------------------------------------------------------
(* df.sort_index(): a monotonic index is returned as it is; otherwise the  *)
(* rows are ordered by an argsort that is not stable (kind='quicksort'),   *)
(* so rows of equal date may come out in any order.                        *)

(* the orders of the positions in S that put their dates in ascending order *)
RECURSIVE SortedOrders(_, _)
SortedOrders(idx, S) ==
    IF S = {} THEN {<<>>}
    ELSE LET lowest == {m \in S : \A k \in S : idx[m] <= idx[k]}
         IN  UNION {{<<m>> \o rest : rest \in SortedOrders(idx, S \ {m})} :
                      m \in lowest}

SortIndexOutcomes(t) ==
    IF IsMonotonicIncreasing(t.idx)
    THEN {t}
    ELSE {TakeRows(t, p) : p \in SortedOrders(t.idx, 1..NRows(t))}

-----------------------------------------------------------------------------
(* ffill / bfill of one column: one pass carrying the last valid value     *)

RECURSIVE FfillPass(_, _, _)
FfillPass(vals, i, last) ==
    IF i > Len(vals) THEN <<>>
    ELSE LET v == IF IsNull(vals[i]) THEN last ELSE vals[i]
         IN  <<v>> \o FfillPass(vals, i + 1, v)

RECURSIVE BfillPass(_, _, _)
BfillPass(vals, i, nxt) ==
    IF i < 1 THEN <<>>
    ELSE LET v == IF IsNull(vals[i]) THEN nxt ELSE vals[i]
         IN  BfillPass(vals, i - 1, v) \o <<v>>

(* variant: ffill(limit=1), a value is carried over one gap row only *)
FfillColumnLimit1(vals) ==
    [i \in 1..Len(vals) |->
        IF IsNull(vals[i]) /\ i > 1 THEN vals[i - 1] ELSE vals[i]]

FfillColumn(vals) == FfillPass(vals, 1, NaN)
BfillColumn(vals) == BfillPass(vals, Len(vals), NaN)

(* df.ffill(): every column on its own *)
Ffill(t) ==
    [idx  |-> t.idx,
     cols |-> [c \in 1..NCols(t) |->
                 [name |-> t.cols[c].name, vals |-> FfillColumn(t.cols[c].vals)]]]

(* df.bfill(): every column on its own *)
Bfill(t) ==
    [idx  |-> t.idx,
     cols |-> [c \in 1..NCols(t) |->
                 [name |-> t.cols[c].name, vals |-> BfillColumn(t.cols[c].vals)]]]

(* variant: df.ffill() alone *)
FfillOnly(t) == Ffill(t)

(* variant: df.bfill().ffill() *)
BfillFfill(t) == Ffill(Bfill(t))

(* df.ffill().bfill() *)
FfillBfill(t) == Bfill(Ffill(t))


-----------------------------------------------------------------------------
(* pull_bloomberg: the live fetches, the spreadsheet loaders and the files *)
(* the script writes.  A table of the pull script is [source, columns]:    *)
(* where it came from and its column labels in order; a spreadsheet is     *)
(* [state, headers] with the header row as read by pd.read_excel.          *)

MaxSheetCols == 2      \* data columns of a spreadsheet besides the date column

(* str.lower() and the `in` substring test *)
UpperCase == "ABCDEFGHIJKLMNOPQRSTUVWXYZ"
LowerCase == "abcdefghijklmnopqrstuvwxyz"

LowerChar(c) ==
    IF \E i \in 1..26 : SubSeq(UpperCase, i, i) = c
    THEN LET i == CHOOSE j \in 1..26 : SubSeq(UpperCase, j, j) = c
         IN  SubSeq(LowerCase, i, i)
    ELSE c

RECURSIVE Lower(_)
Lower(str) ==
    IF Len(str) = 0 THEN ""
    ELSE LowerChar(SubSeq(str, 1, 1)) \o Lower(SubSeq(str, 2, Len(str)))

Contains(str, sub) ==
    \E i \in 1..(Len(str) - Len(sub) + 1) : SubSeq(str, i, i + Len(sub) - 1) = sub

NoTable == [source |-> "none", columns |-> <<>>]
Table(source, columns) == [source |-> source, columns |-> columns]

(* blp.bdh([...], "PX_LAST", ...) with the field level dropped *)
BbgIndexColumns ==
    <<"SPX Index", "SX5E Index", "NKY Index",
      "USGG30YR Index", "GDBR30 Index", "GJGB30 Index">>
(* div_df[f"{ticker}_DIV"] for the three dividend tickers *)
BbgDividendColumns == <<"SPX Index_DIV", "SX5E Index_DIV", "NKY Index_DIV">>

(* header rows of data_manual/index_prices.xlsx and equity_dividend.xlsx *)
IndexHeaders ==
    {"S&P 500", "Euro Stoxx 50", "Nikkei 225", "US 30Y Yield",
     "Germany 30Y Yield", "Japan 30Y Yield", "Volume"}
DividendHeaders == {"S&P 500 Dividend", "Nikkei 225 Dividend", "Payout"}

NoSheet == [state |-> "missing", headers |-> <<>>]
Unreadable == [state |-> "unreadable", headers |-> <<>>]
Sheet(headers) == [state |-> "ok", headers |-> headers]

(* the position of the date column: the first header holding 'date' or     *)
(* 'unnamed', else the first column                                        *)
DateColumn(headers) ==
    LET hits == {i \in 1..Len(headers) :
                    \/ Contains(Lower(headers[i]), "date")
                    \/ Contains(Lower(headers[i]), "unnamed")}
    IN  IF hits = {} THEN 1 ELSE CHOOSE i \in hits : \A j \in hits : i <= j

(* the columns left after df.set_index('Date') *)
DataColumns(headers) ==
    LET d == DateColumn(headers)
    IN  [k \in 1..(Len(headers) - 1) |-> IF k < d THEN headers[k] ELSE headers[k + 1]]

(* load_bbg_excel: the if/elif cascade that fills column_mapping; a column *)
(* no branch matches keeps its header                                      *)
BbgTicker(col) ==
    LET col_lower == Lower(col) IN
    IF Contains(col_lower, "s&p") \/ Contains(col_lower, "sp500")
          \/ Contains(col_lower, "sp 500") THEN "SPX Index"
    ELSE IF Contains(col_lower, "euro") \/ Contains(col_lower, "stoxx") THEN "SX5E Index"
    ELSE IF Contains(col_lower, "nikkei") \/ Contains(col_lower, "japan") THEN "NKY Index"
    ELSE IF Contains(col_lower, "us") /\ Contains(col_lower, "yield") THEN "USGG30YR Index"
    ELSE IF (Contains(col_lower, "germany") \/ Contains(col_lower, "eu"))
             /\ Contains(col_lower, "yield") THEN "GDBR30 Index"
    ELSE IF Contains(col_lower, "japan") /\ Contains(col_lower, "yield") THEN "GJGB30 Index"
    ELSE col

(* load_dividend_excel: the cascade that fills its column_mapping *)
BbgDividendTicker(col) ==
    LET col_lower == Lower(col) IN
    IF Contains(col_lower, "s&p") \/ Contains(col_lower, "sp500")
          \/ Contains(col_lower, "sp 500") THEN "SPX Index_DIV"
    ELSE IF Contains(col_lower, "euro") \/ Contains(col_lower, "stoxx") THEN "SX5E Index_DIV"
    ELSE IF Contains(col_lower, "nikkei") \/ Contains(col_lower, "japan") THEN "NKY Index_DIV"
    ELSE col

(* outcome of a loader: [status, table] *)
LoadRaised(e) == [status |-> e, table |-> NoTable]
Loaded(t) == [status |-> "ok", table |-> t]

(* load_bbg_excel(BASE_DIR) *)
LoadBbgExcel(sheet) ==
    IF sheet.state = "missing" THEN LoadRaised("FileNotFoundError")
    ELSE IF sheet.state = "unreadable" THEN LoadRaised("ValueError")
    ELSE LET cols == DataColumns(sheet.headers)
         IN  Loaded(Table("excel", [k \in 1..Len(cols) |-> BbgTicker(cols[k])]))

(* load_dividend_excel(BASE_DIR) *)
LoadDividendExcel(sheet) ==
    IF sheet.state = "missing" THEN LoadRaised("FileNotFoundError")
    ELSE IF sheet.state = "unreadable" THEN LoadRaised("ValueError")
    ELSE LET cols == DataColumns(sheet.headers)
         IN  Loaded(Table("excel", [k \in 1..Len(cols) |-> BbgDividendTicker(cols[k])]))

NoCalls == [live |-> 0, live_raised |-> 0, load_bbg_excel |-> 0, load_dividend_excel |-> 0]

(* the file names of lines 279-282 and 294-297 *)
RawFileName(bbg, kind) ==
    IF kind = "index"
    THEN (IF bbg THEN "bloomberg_index_data.parquet" ELSE "excel_index_data.parquet")
    ELSE (IF bbg THEN "bloomberg_dividend_data.parquet" ELSE "excel_dividend_data.parquet")

(* df.to_parquet(path): the file named after USE_BBG is overwritten *)
SaveAs(files, bbg, kind, t) ==
    {f \in files : f.file # RawFileName(bbg, kind)}
        \cup {[file |-> RawFileName(bbg, kind), table |-> t]}

EmptyDir == [f \in {} |-> EmptyFrame]

IdlePullRun ==
    /\ data_manual = [index |-> NoSheet, dividend |-> NoSheet]
    /\ index_df = NoTable
    /\ div_df = NoTable
    /\ saved = {}
    /\ calls = NoCalls
    /\ pull_exit = "running"

IdlePull ==
    /\ config_use_bbg = FALSE
    /\ use_bbg = FALSE
    /\ IdlePullRun

-----------------------------------------------------------------------------
(* clean_index_data / clean_dividend_data from pd.read_parquet on:         *)
(* window filter, rename, sort_index, ffill().bfill().  An outcome keeps   *)
(* the sorted table before filling next to the returned one.               *)

NoOutcome == [status |-> "none", df |-> EmptyFrame]
Raised(e) == [status |-> e, df |-> EmptyFrame]
Returned(t) == [status |-> "ok", df |-> t]

(* outcomes of run_regression: [status, nobs] *)
NoFit == [status |-> "none", nobs |-> 0]
FitRaised(e) == [status |-> e, nobs |-> 0]

RenameFor(kind, t) ==
    IF kind = "index" THEN RenameIndexColumns(t) ELSE RenameDividendColumns(t)

CleanOutcomes(t, end, kind) ==
    (IF LocSliceMayRaise(t, START_DT, end)
     THEN {[sorted |-> EmptyFrame, out |-> Raised("KeyError")]}
     ELSE {})
    \cup
    {[sorted |-> s, out |-> Returned(FfillBfill(s))] :
        s \in SortIndexOutcomes(RenameFor(kind, LocSlice(t, START_DT, end)))}

IdleScriptRun ==
    /\ price_df = EmptyFrame
    /\ dividend_df = EmptyFrame
    /\ yields_df = NoOutcome
    /\ artifacts = {}
    /\ script_exit = "running"

IdleScript ==
    /\ data_dir = EmptyDir
    /\ path = ""
    /\ IdleScriptRun

(* the state of the parts no call has touched *)
NoRun == [div_data |-> EmptyFrame, futures_data |-> EmptyFrame,
          pooled_data |-> NoOutcome, regression |-> NoFit,
          start |-> [seed |-> 0, n |-> 0], restart |-> [seed |-> 0, n |-> 0]]

IdleMain ==
    /\ rng = [seed |-> 0, n |-> 0]
    /\ generator = 0
    /\ run = 0
    /\ first_run = NoRun
    /\ futures_base = EmptyFrame
    /\ main_reads = {}

IdleFigures ==
    /\ params = [const |-> 0, eurostoxx_dummy |-> 0, nikkei_dummy |-> 0,
                 equity_yield_2y |-> 0]
    /\ x_range = <<>>
    /\ y_pred = <<>>
    /\ forecast_file = [exists |-> FALSE, df |-> EmptyFrame]
    /\ fig5_data = NoOutcome

IdleTests ==
    /\ index_data_clean = [exists |-> FALSE, df |-> EmptyFrame]
    /\ cum_returns = NoOutcome
    /\ imported = [status |-> "none", names |-> {}]

IdleRuns ==
    /\ pull_runs = 0
    /\ last_written = {}
    /\ clean_read = [index |-> "", dividend |-> ""]

IdleDoit ==
    /\ selected = {}
    /\ disk = {}
    /\ status = <<>>

IdleLater == IdleMain /\ IdleFigures /\ IdleTests /\ IdleRuns /\ IdleDoit

IdleCombine ==
    /\ price_data = EmptyFrame
    /\ dividend_data = EmptyFrame
    /\ yield_data = EmptyFrame
    /\ combined_df = NoOutcome
    /\ regrouped = <<>>
    /\ oid = <<>>

IdleTable1 ==
    /\ div_data = EmptyFrame
    /\ futures_data = EmptyFrame
    /\ equity_yields = NoOutcome
    /\ reg_data = EmptyFrame
    /\ pooled_data = NoOutcome
    /\ regression = NoFit

(* lines 30-34 / 94-98: the file of the configured source *)
CleanerPath(bbg, kind) ==
    IF kind = "index"
    THEN (IF bbg THEN "bloomberg_index_data.parquet" ELSE "excel_index_data.parquet")
    ELSE (IF bbg THEN "bloomberg_dividend_data.parquet" ELSE "excel_dividend_data.parquet")

(* variant: no alternative file is tried *)
ChoosePathNoAlternative(dir, bbg, kind) ==
    IF CleanerPath(bbg, kind) \in DOMAIN dir
    THEN [found |-> TRUE, path |-> CleanerPath(bbg, kind)]
    ELSE [found |-> FALSE, path |-> CleanerPath(bbg, kind)]

(* lines 30-43 / 94-107: the configured file, else the other source's     *)
(* file, else FileNotFoundError (path then still names the configured one) *)
ChoosePath(dir, bbg, kind) ==
    LET primary == CleanerPath(bbg, kind)
        alternative_path == CleanerPath(~bbg, kind)
    IN  IF primary \in DOMAIN dir THEN [found |-> TRUE, path |-> primary]
        ELSE IF alternative_path \in DOMAIN dir
             THEN [found |-> TRUE, path |-> alternative_path]
        ELSE [found |-> FALSE, path |-> primary]

RawFiles ==
    {CleanerPath(b, k) : b \in BOOLEAN, k \in {"index", "dividend"}}

(* a one-row raw file whose value tells the files apart *)
SampleFile(f) ==
    [idx  |-> <<START_DT>>,
     cols |-> << [name |-> IF f \in {CleanerPath(TRUE, "index"), CleanerPath(FALSE, "index")}
                           THEN "SPX Index" ELSE "s&p 500 dividend",
                  vals |-> << IF f \in {CleanerPath(TRUE, "index"), CleanerPath(TRUE, "dividend")}
                              THEN Num(1) ELSE Num(2) >>] >>]

(* raw column labels of the two-column files: a mapped ticker, a semantic *)
(* name, a label the dividend heuristic matches, labels nothing matches   *)
IndexColumnLabels    == {"SPX Index", "SP500", "GJGB30 Index", "Volume"}
DividendColumnLabels == {"SPX Index_DIV", "s&p 500 dividend", "SP500_DIV", "Payout"}

RawFrame(i, nm, v) == [idx |-> i, cols |-> <<[name |-> nm, vals |-> v]>>]

(* a one-row raw file with two columns of different labels *)
TwoColumnFrame(n1, n2) ==
    [idx  |-> <<START_DT>>,
     cols |-> << [name |-> n1, vals |-> <<Num(1)>>],
                 [name |-> n2, vals |-> <<Num(2)>>] >>]

KindLabels(kind) == IF kind = "index" THEN IndexLabels ELSE DividendLabels
KindColumnLabels(kind) ==
    IF kind = "index" THEN IndexColumnLabels ELSE DividendColumnLabels

(* DATA_DIR holds one raw file of the configured source, of one column    *)
(* and any rows or of two columns and one row, or any subset of the four  *)
(* raw files with sample content under either setting of USE_BBG          *)
InitClean ==
    /\ IdleLater
    /\ pc = "clean"
    /\ \/ /\ use_bbg = FALSE
          /\ \E kind \in {"index", "dividend"} :
                \/ \E n \in 0..MaxRows :
                      \E i \in [1..n -> Dates], nm \in KindLabels(kind),
                         v \in [1..n -> CellVals] :
                         data_dir = (CleanerPath(FALSE, kind) :> RawFrame(i, nm, v))
                \/ \E n1, n2 \in KindColumnLabels(kind) :
                      /\ n1 # n2
                      /\ data_dir = (CleanerPath(FALSE, kind) :> TwoColumnFrame(n1, n2))
       \/ /\ use_bbg \in BOOLEAN
          /\ \E S \in SUBSET RawFiles : data_dir = [f \in S |-> SampleFile(f)]
    /\ end_date \in EndDates
    /\ df = EmptyFrame
    /\ path = ""
    /\ df_sorted = EmptyFrame
    /\ cleaned = NoOutcome
    /\ refilled = EmptyFrame
    /\ config_use_bbg = use_bbg
    /\ IdlePullRun
    /\ IdleScriptRun
    /\ IdleCombine
    /\ IdleTable1

(* the cleaner of one kind: choose the file, read it, clean it *)
CleanData(kind) ==
    LET p == ChoosePath(data_dir, use_bbg, kind) IN
    /\ path' = p.path
    /\ IF p.found
       THEN /\ df' = data_dir[p.path]
            /\ \E o \in CleanOutcomes(data_dir[p.path], end_date, kind) :
                  /\ df_sorted' = o.sorted
                  /\ cleaned' = o.out
       ELSE /\ cleaned' = Raised("FileNotFoundError")
            /\ UNCHANGED <<df, df_sorted>>

clean_index_data ==
    /\ pc = "clean"
    /\ CleanData("index")
    /\ pc' = "cleaned"
    /\ UNCHANGED <<end_date, refilled, data_dir, price_df, dividend_df, yields_df,
                   artifacts, script_exit, combineVars, table1Vars, pullVars, laterVars>>

clean_dividend_data ==
    /\ pc = "clean"
    /\ CleanData("dividend")
    /\ pc' = "cleaned"
    /\ UNCHANGED <<end_date, refilled, data_dir, price_df, dividend_df, yields_df,
                   artifacts, script_exit, combineVars, table1Vars, pullVars, laterVars>>

(* the cleaner's fill applied to a table it has already filled *)
FillAgain ==
    /\ pc = "cleaned"
    /\ cleaned.status = "ok"
    /\ refilled' = FfillBfill(cleaned.df)
    /\ pc' = "refilled"
    /\ UNCHANGED <<df, end_date, df_sorted, cleaned, combineVars, table1Vars, pullVars, scriptVars, laterVars>>

NextClean == clean_index_data \/ clean_dividend_data \/ FillAgain

SpecClean == InitClean /\ [][NextClean]_vars


-----------------------------------------------------------------------------
(* calculate_yields and combine_data *)

MaxMergeRows == 2      \* rows of a table handed to combine_data
MergeDates   == 1..3   \* the dates those rows are taken from
MergeVals    == {NaN, Num(1)}
PriceLabels    == {"SP500"}
DivLabels      == {"SP500_DIV"}
YieldLabels    == {"SP500_YIELD"}

HasColumn(t, name) == name \in Columns(t)

(* df[name] *)
ColumnVals(t, name) ==
    t.cols[CHOOSE c \in 1..NCols(t) : t.cols[c].name = name].vals

(* df[name] = vals: an existing column is overwritten in place, a new one *)
(* is appended                                                            *)
SetColumn(t, name, vals) ==
    IF HasColumn(t, name)
    THEN [t EXCEPT !.cols =
            [c \in 1..NCols(t) |->
                IF t.cols[c].name = name
                THEN [name |-> name, vals |-> vals] ELSE t.cols[c]]]
    ELSE [t EXCEPT !.cols = Append(t.cols, [name |-> name, vals |-> vals])]

(* variant: reindex(method='bfill'), the next later label is used *)
ReindexBfillVals(src_idx, src_vals, target_idx) ==
    [i \in 1..Len(target_idx) |->
        LET n == Cardinality({k \in 1..Len(src_idx) : src_idx[k] < target_idx[i]})
        IN  IF n = Len(src_idx) THEN NaN ELSE src_vals[n + 1]]

(* series.reindex(index=target, method='ffill') on a sorted unique index:  *)
(* searchsorted(target, side='right') - 1 addresses the source row, -1 is  *)
(* NaN.  The cell of that row is taken as it is, null or not.              *)
ReindexFfillVals(src_idx, src_vals, target_idx) ==
    [i \in 1..Len(target_idx) |->
        LET n == Cardinality({k \in 1..Len(src_idx) : src_idx[k] <= target_idx[i]})
        IN  IF n = 0 THEN NaN ELSE src_vals[n]]

(* reindex with a method raises ValueError on a source index that differs  *)
(* from the target and is not unique or not monotonic                      *)
ReindexRaises(src_idx, target_idx) ==
    /\ src_idx # target_idx
    /\ ~(IsUnique(src_idx) /\ IsMonotonicIncreasing(src_idx))

ReindexFfill(t, target_idx) ==
    [idx  |-> target_idx,
     cols |-> [c \in 1..NCols(t) |->
                 [name |-> t.cols[c].name,
                  vals |-> ReindexFfillVals(t.idx, t.cols[c].vals, target_idx)]]]

(* a / b of two Series on the same index *)
SeriesDiv(a, b) == [i \in 1..Len(a) |-> FloatDiv(a[i], b[i])]

IndexNames == <<"SP500", "EUROSTOXX", "NIKKEI">>
DivCol(index_name) ==
    CASE index_name = "SP500"     -> "SP500_DIV"
      [] index_name = "EUROSTOXX" -> "EUROSTOXX_DIV"
      [] index_name = "NIKKEI"    -> "NIKKEI_DIV"
YieldCol(index_name) ==
    CASE index_name = "SP500"     -> "SP500_YIELD"
      [] index_name = "EUROSTOXX" -> "EUROSTOXX_YIELD"
      [] index_name = "NIKKEI"    -> "NIKKEI_YIELD"

(* the "for index_name in [...]" loop of calculate_yields from position k *)
RECURSIVE YieldLoop(_, _, _, _)
YieldLoop(result, reindexed_div, price, k) ==
    IF k > Len(IndexNames) THEN result
    ELSE LET nm == IndexNames[k]
             r  == IF HasColumn(reindexed_div, DivCol(nm)) /\ HasColumn(price, nm)
                   THEN SetColumn(result, YieldCol(nm),
                            SeriesDiv(ColumnVals(reindexed_div, DivCol(nm)),
                                      ColumnVals(price, nm)))
                   ELSE result
         IN  YieldLoop(r, reindexed_div, price, k + 1)

(* variant: the yield columns are written into price_data itself *)
CalculateYieldsInPlace(price, dividend) ==
    LET r == YieldLoop(price, ReindexFfill(dividend, price.idx), price, 1)
    IN  [out |-> Returned(r), price_data |-> r, dividend_data |-> dividend,
         fresh |-> FALSE]

(* calculate_yields: the outcome, the two arguments as the call leaves     *)
(* them, and whether the returned frame is one created inside the call     *)
CalculateYields(price, dividend) ==
    IF ReindexRaises(dividend.idx, price.idx)
    THEN [out |-> Raised("ValueError"), price_data |-> price,
          dividend_data |-> dividend, fresh |-> TRUE]
    ELSE [out |-> Returned(YieldLoop([idx |-> price.idx, cols |-> <<>>],
                                     ReindexFfill(dividend, price.idx), price, 1)),
          price_data |-> price, dividend_data |-> dividend, fresh |-> TRUE]

(* the dates of a set in ascending order *)
RECURSIVE Ascending(_)
Ascending(S) ==
    IF S = {} THEN <<>>
    ELSE LET m == CHOOSE x \in S : \A y \in S : x <= y
         IN  <<m>> \o Ascending(S \ {m})

(* Index.union of two sorted unique indexes *)
IndexUnion(a, b) == Ascending(Range(a) \cup Range(b))

(* variant: the dates of the first table only *)
AllDatesFirstOnly(p, d, y) == p.idx

(* all_dates of combine_data *)
AllDates(p, d, y) == IndexUnion(IndexUnion(p.idx, d.idx), y.idx)

(* one "for col in <table>.columns" loop of combine_data from column c *)
RECURSIVE AddColumns(_, _, _)
AddColumns(combined, t, c) ==
    IF c > NCols(t) THEN combined
    ELSE AddColumns(
            SetColumn(combined, t.cols[c].name,
                ReindexFfillVals(t.idx, t.cols[c].vals, combined.idx)),
            t, c + 1)

(* combine_data: the outcome, the three arguments as the call leaves them, *)
(* and whether the returned frame is one created inside the call           *)
CombineData(p, d, y) ==
    LET all_dates == AllDates(p, d, y)
        empty     == [idx |-> all_dates, cols |-> <<>>]
    IN  IF \E t \in {p, d, y} : ReindexRaises(t.idx, all_dates)
        THEN [out |-> Raised("ValueError"), price_data |-> p,
              dividend_data |-> d, yield_data |-> y, fresh |-> TRUE]
        ELSE [out |-> Returned(AddColumns(AddColumns(AddColumns(empty, p, 1), d, 1), y, 1)),
              price_data |-> p, dividend_data |-> d, yield_data |-> y,
              fresh |-> TRUE]

(* combine_data of two tables: the third argument is an empty frame *)
Merge2(a, b) == CombineData(a, b, EmptyFrame).out.df

(* the other argument orders of combine_data and the two groupings *)
Regroupings(a, b, c) ==
    << CombineData(a, c, b).out.df, CombineData(b, a, c).out.df,
       CombineData(b, c, a).out.df, CombineData(c, a, b).out.df,
       CombineData(c, b, a).out.df,
       Merge2(Merge2(a, b), c), Merge2(a, Merge2(b, c)) >>

(* a table of one column with a strictly increasing date index *)
IsSeriesFrame(t, labels, values) ==
    \E n \in 0..MaxMergeRows :
        \E i \in [1..n -> MergeDates], nm \in labels, v \in [1..n -> values] :
            /\ \A k \in 1..(n - 1) : i[k] < i[k + 1]
            /\ t = [idx |-> i, cols |-> <<[name |-> nm, vals |-> v]>>]

IdleClean ==
    /\ df = EmptyFrame
    /\ end_date = START_DT
    /\ df_sorted = EmptyFrame
    /\ cleaned = NoOutcome
    /\ refilled = EmptyFrame

InitCombine ==
    /\ IdleLater
    /\ pc = "tables"
    /\ IsSeriesFrame(price_data, PriceLabels, MergeVals)
    /\ IsSeriesFrame(dividend_data, DivLabels, CellVals)
    /\ IsSeriesFrame(yield_data, YieldLabels, MergeVals)
    /\ combined_df = NoOutcome
    /\ regrouped = <<>>
    /\ oid = [price_data |-> 1, dividend_data |-> 2, yield_data |-> 3,
              combined_df |-> 0, next |-> 4]
    /\ IdleClean
    /\ IdleTable1
    /\ IdlePull
    /\ IdleScript

(* yields_df = calculate_yields(price_df, dividend_df) *)
calculate_yields ==
    /\ pc = "tables"
    /\ LET r == CalculateYields(price_data, dividend_data)
       IN  /\ r.out.status = "ok"
           /\ price_data' = r.price_data
           /\ dividend_data' = r.dividend_data
           /\ yield_data' = r.out.df
           /\ oid' = [oid EXCEPT
                        !.yield_data = IF r.fresh THEN oid.next ELSE oid.price_data,
                        !.next = oid.next + 1]
    /\ pc' = "yields"
    /\ UNCHANGED <<combined_df, regrouped, cleanVars, table1Vars, pullVars, scriptVars, laterVars>>

(* combined_df = combine_data(price_df, dividend_df, yields_df) *)
combine_data ==
    /\ pc \in {"tables", "yields"}
    /\ LET r == CombineData(price_data, dividend_data, yield_data)
       IN  /\ price_data' = r.price_data
           /\ dividend_data' = r.dividend_data
           /\ yield_data' = r.yield_data
           /\ combined_df' = r.out
           /\ oid' = [oid EXCEPT
                        !.combined_df = IF r.fresh THEN oid.next ELSE oid.price_data,
                        !.next = oid.next + 1]
    /\ pc' = "combined"
    /\ UNCHANGED <<regrouped, cleanVars, table1Vars, pullVars, scriptVars, laterVars>>

(* the same three tables combined in the other orders and groupings *)
Regroup ==
    /\ pc = "combined"
    /\ combined_df.status = "ok"
    /\ regrouped' = Regroupings(price_data, dividend_data, yield_data)
    /\ pc' = "regrouped"
    /\ UNCHANGED <<price_data, dividend_data, yield_data, combined_df, oid,
                   cleanVars, table1Vars, pullVars, scriptVars, laterVars>>

NextCombine == calculate_yields \/ combine_data \/ Regroup

SpecCombine == InitCombine /\ [][NextCombine]_vars

-----------------------------------------------------------------------------
(* TABLE1_replication: calculate_equity_yields, prepare_regression_data *)

MaxQuarters  == 6      \* rows of the dividend table of a growth run
MaxYieldRows == 2      \* rows of the tables of a yield run
Horizon      == 4      \* div_series.shift(-4)

GrowthVals == {NaN, Num(0), Num(1), Num(2)}
YieldVals  == {NaN, Num(-1), Num(0), Num(1), Num(2)}

Regions == <<"sp500", "eurostoxx", "nikkei">>
RegionSet == Range(Regions)

DivName(r) ==
    CASE r = "sp500" -> "sp500_div" [] r = "eurostoxx" -> "eurostoxx_div"
      [] r = "nikkei" -> "nikkei_div"
FuturesName(r) ==
    CASE r = "sp500" -> "sp500_futures_2y" [] r = "eurostoxx" -> "eurostoxx_futures_2y"
      [] r = "nikkei" -> "nikkei_futures_2y"
YieldName(r) ==
    CASE r = "sp500" -> "sp500_yield_2y" [] r = "eurostoxx" -> "eurostoxx_yield_2y"
      [] r = "nikkei" -> "nikkei_yield_2y"
GrowthName(r) ==
    CASE r = "sp500" -> "sp500_growth" [] r = "eurostoxx" -> "eurostoxx_growth"
      [] r = "nikkei" -> "nikkei_growth"
DummyName(r) ==
    CASE r = "sp500" -> "sp500_dummy" [] r = "eurostoxx" -> "eurostoxx_dummy"
      [] r = "nikkei" -> "nikkei_dummy"

(* (1/n) * np.log(q): <<a, b, n>> stands for the finite float ln(a/b)/n.   *)
(* np.log is NaN on NaN and on a negative argument, -inf on 0 and +inf on  *)
(* +inf; none of these raises.                                             *)
ScaledLog(q, n) ==
    IF IsNull(q) THEN NaN
    ELSE IF q[2] = 0 THEN (IF q = PosInf THEN PosInf ELSE NaN)
    ELSE IF q[1] < 0 THEN NaN
    ELSE IF q[1] = 0 THEN NegInf
    ELSE <<q[1], q[2], n>>

(* one column of calculate_equity_yields *)
EquityYieldColumn(div, fut, n) ==
    [i \in 1..Len(div) |-> ScaledLog(FloatDiv(div[i], fut[i]), n)]

(* calculate_equity_yields *)
CalculateEquityYields(div, fut) ==
    Returned(
      [idx  |-> div.idx,
       cols |-> [k \in 1..Len(Regions) |->
                   [name |-> YieldName(Regions[k]),
                    vals |-> EquityYieldColumn(ColumnVals(div, DivName(Regions[k])),
                                ColumnVals(fut, FuturesName(Regions[k])), 2)]]])

(* variant: series.shift(periods, fill_value=0), periods < 0 *)
ShiftZeroFilled(series, periods) ==
    [i \in 1..Len(series) |->
        IF i - periods <= Len(series) THEN series[i - periods] ELSE Num(0)]

(* series.shift(periods), periods < 0: row i takes the value of row        *)
(* i - periods, the rows without one are NaN                               *)
Shift(series, periods) ==
    [i \in 1..Len(series) |->
        IF i - periods <= Len(series) THEN series[i - periods] ELSE NaN]

(* div_series.shift(-4) / div_series - 1 *)
GrowthSeries(div_series) ==
    LET shifted == Shift(div_series, -Horizon)
    IN  [i \in 1..Len(div_series) |->
            FloatSub(FloatDiv(shifted[i], div_series[i]), Num(1))]

(* the first loop of prepare_regression_data from region k *)
RECURSIVE RegDataLoop(_, _, _, _)
RegDataLoop(reg, div, yields, k) ==
    IF k > Len(Regions) THEN reg
    ELSE LET r  == Regions[k]
             g  == SetColumn(reg, GrowthName(r), GrowthSeries(ColumnVals(div, DivName(r))))
             y  == SetColumn(g, YieldName(r), ColumnVals(yields, YieldName(r)))
             d  == SetColumn(y, DummyName(r), [i \in 1..NRows(div) |-> Num(1)])
         IN  RegDataLoop(d, div, yields, k + 1)

RegData(div, yields) ==
    RegDataLoop([idx |-> div.idx, cols |-> <<>>], div, yields, 1)

(* an object (string) cell and an integer cell of a DataFrame *)
StrCell(s) == <<s>>
IntCell(n) == <<n, 1>>

(* 1 if index_name == 'eurostoxx' else 0 *)
EurostoxxDummy(index_name) == IF index_name = "eurostoxx" THEN IntCell(1) ELSE IntCell(0)
(* 1 if index_name == 'nikkei' else 0 *)
NikkeiDummy(index_name) == IF index_name = "nikkei" THEN IntCell(1) ELSE IntCell(0)

(* variant: every region sets both of its dummies from its own name *)
IndexDataOwnDummy(reg, index_name) ==
    LET n == NRows(reg)
        const(v) == [i \in 1..n |-> v]
    IN  [idx  |-> reg.idx,
         cols |-> << [name |-> "div_growth", vals |-> ColumnVals(reg, GrowthName(index_name))],
                     [name |-> "equity_yield_2y", vals |-> ColumnVals(reg, YieldName(index_name))],
                     [name |-> "eurostoxx_dummy",
                      vals |-> const(IF index_name = "sp500" THEN IntCell(0) ELSE IntCell(1))],
                     [name |-> "nikkei_dummy",
                      vals |-> const(IF index_name = "sp500" THEN IntCell(0) ELSE IntCell(1))],
                     [name |-> "index", vals |-> const(StrCell(index_name))] >>]

(* index_data = pd.DataFrame({...}): two series of reg_data and three      *)
(* scalars broadcast over the rows                                          *)
IndexData(reg, index_name) ==
    LET n == NRows(reg)
        const(v) == [i \in 1..n |-> v]
    IN  [idx  |-> reg.idx,
         cols |-> << [name |-> "div_growth", vals |-> ColumnVals(reg, GrowthName(index_name))],
                     [name |-> "equity_yield_2y", vals |-> ColumnVals(reg, YieldName(index_name))],
                     [name |-> "eurostoxx_dummy", vals |-> const(EurostoxxDummy(index_name))],
                     [name |-> "nikkei_dummy", vals |-> const(NikkeiDummy(index_name))],
                     [name |-> "index", vals |-> const(StrCell(index_name))] >>]

(* pd.concat([a, b]) for a the empty frame or a frame with b's columns *)
Concat(a, b) ==
    IF NCols(a) = 0 /\ NRows(a) = 0 THEN b
    ELSE [idx  |-> a.idx \o b.idx,
          cols |-> [c \in 1..NCols(a) |->
                      [name |-> a.cols[c].name,
                       vals |-> a.cols[c].vals \o ColumnVals(b, a.cols[c].name)]]]

(* the second loop of prepare_regression_data from region k *)
RECURSIVE PoolLoop(_, _, _)
PoolLoop(pooled, reg, k) ==
    IF k > Len(Regions) THEN pooled
    ELSE PoolLoop(Concat(pooled, IndexData(reg, Regions[k])), reg, k + 1)

(* the rows of t without a NaN cell *)
CompleteRows(t) ==
    SelectSeq(Positions(NRows(t)),
              LAMBDA i : \A c \in 1..NCols(t) : NotNull(t.cols[c].vals[i]))

(* variant: dropna(how='all') *)
DropnaAll(t) ==
    TakeRows(t, SelectSeq(Positions(NRows(t)),
                  LAMBDA i : \E c \in 1..NCols(t) : NotNull(t.cols[c].vals[i])))

(* pooled_data.dropna(): rows with a NaN in any column go, +-inf stays *)
Dropna(t) == TakeRows(t, CompleteRows(t))

(* prepare_regression_data *)
PrepareRegressionData(div, yields) ==
    Returned(Dropna(PoolLoop(EmptyFrame, RegData(div, yields), 1)))

(* a cell that is +inf or -inf *)
IsInf(v) == Len(v) = 2 /\ v[2] = 0

(* run_regression: sm.OLS(y, X).fit(...).  The code has no guard of its    *)
(* own: on an empty sample numpy's reduction over the zero-size design     *)
(* matrix raises ValueError, on a sample holding +-inf statsmodels raises  *)
(* MissingDataError, otherwise the fit returns with nobs = the sample size *)
RunRegression(sample) ==
    IF NRows(sample) = 0 THEN FitRaised("ValueError")
    ELSE IF \E i \in 1..NRows(sample) :
               \/ IsInf(ColumnVals(sample, "div_growth")[i])
               \/ IsInf(ColumnVals(sample, "equity_yield_2y")[i])
         THEN FitRaised("MissingDataError")
    ELSE [status |-> "ok", nobs |-> NRows(sample)]

(* a table of n quarters: region r carries the series s, the others ones *)
RegionFrame(n, r, s, kind) ==
    [idx  |-> Positions(n),
     cols |-> [k \in 1..Len(Regions) |->
                 [name |-> IF kind = "div" THEN DivName(Regions[k])
                           ELSE FuturesName(Regions[k]),
                  vals |-> IF Regions[k] = r THEN s
                           ELSE [i \in 1..n |-> Num(1)]]]]

InitTable1 ==
    /\ IdleLater
    /\ pc = "loaded"
    /\ \E r \in RegionSet :
          \/ \E n \in 0..MaxQuarters : \E s \in [1..n -> GrowthVals] :
                /\ div_data = RegionFrame(n, r, s, "div")
                /\ futures_data = RegionFrame(n, r, [i \in 1..n |-> Num(1)], "futures")
          \/ \E n \in 1..MaxYieldRows :
                \E s \in [1..n -> YieldVals], f \in [1..n -> YieldVals] :
                   /\ div_data = RegionFrame(n, r, s, "div")
                   /\ futures_data = RegionFrame(n, r, f, "futures")
    /\ equity_yields = NoOutcome
    /\ reg_data = EmptyFrame
    /\ pooled_data = NoOutcome
    /\ regression = NoFit
    /\ IdleClean
    /\ IdleCombine
    /\ IdlePull
    /\ IdleScript

calculate_equity_yields ==
    /\ pc = "loaded"
    /\ equity_yields' = CalculateEquityYields(div_data, futures_data)
    /\ pc' = "yields"
    /\ UNCHANGED <<div_data, futures_data, reg_data, pooled_data, regression,
                   cleanVars, combineVars, pullVars, scriptVars, laterVars>>

prepare_regression_data ==
    /\ pc = "yields"
    /\ equity_yields.status = "ok"
    /\ reg_data' = RegData(div_data, equity_yields.df)
    /\ pooled_data' = PrepareRegressionData(div_data, equity_yields.df)
    /\ pc' = "prepared"
    /\ UNCHANGED <<div_data, futures_data, equity_yields, regression,
                   cleanVars, combineVars, pullVars, scriptVars, laterVars>>

run_regression ==
    /\ pc = "prepared"
    /\ pooled_data.status = "ok"
    /\ regression' = RunRegression(pooled_data.df)
    /\ pc' = "fitted"
    /\ UNCHANGED <<div_data, futures_data, equity_yields, reg_data, pooled_data,
                   cleanVars, combineVars, pullVars, scriptVars, laterVars>>

NextTable1 == calculate_equity_yields \/ prepare_regression_data \/ run_regression

SpecTable1 == InitTable1 /\ [][NextTable1]_vars

-----------------------------------------------------------------------------
(* pull_bloomberg __main__ (lines 231-307), one action per call or block *)

(* the header rows a spreadsheet can have: 'Date' and up to MaxSheetCols   *)
(* different data headers (read_excel makes repeated headers unique)       *)
HeaderRows(H) ==
    UNION {{<<"Date">> \o hs : hs \in {f \in [1..n -> H] :
                                          \A i, j \in 1..n : f[i] = f[j] => i = j}} :
           n \in 1..MaxSheetCols}

Sheets(H) == {NoSheet, Unreadable} \cup {Sheet(h) : h \in HeaderRows(H)}

InitPull ==
    /\ IdleLater
    /\ pc = "start"
    /\ config_use_bbg \in BOOLEAN
    /\ use_bbg = config_use_bbg
    /\ \E si \in Sheets(IndexHeaders), sd \in Sheets(DividendHeaders) :
          data_manual = [index |-> si, dividend |-> sd]
    /\ index_df = NoTable
    /\ div_df = NoTable
    /\ saved = {}
    /\ calls = NoCalls
    /\ pull_exit = "running"
    /\ IdleClean
    /\ IdleCombine
    /\ IdleTable1
    /\ IdleScript

(* variant of the except block: the live source stays enabled and the      *)
(* script goes back to the live fetch                                      *)
LiveFailureRetry == [use_bbg |-> TRUE, pc |-> "start"]

(* except Exception (lines 253-256): USE_BBG = False, on to the fallback *)
LiveFailureHandler == [use_bbg |-> FALSE, pc |-> "fallback"]

(* if USE_BBG is false the try block of lines 243-256 is skipped *)
live_disabled ==
    /\ pc = "start"
    /\ ~use_bbg
    /\ pc' = "fallback"
    /\ UNCHANGED <<config_use_bbg, use_bbg, data_manual, index_df, div_df, saved,
                   calls, pull_exit, cleanVars, combineVars, table1Vars, scriptVars, laterVars>>

(* index_df = pull_bbg_data(START_DATE, END_DATE): one blp.bdh request *)
pull_bbg_data ==
    /\ pc = "start"
    /\ use_bbg
    /\ \E ok \in BOOLEAN :
          IF ok
          THEN /\ index_df' = Table("bloomberg", BbgIndexColumns)
               /\ calls' = [calls EXCEPT !.live = @ + 1]
               /\ pc' = "live_dividend"
               /\ UNCHANGED use_bbg
          ELSE /\ calls' = [calls EXCEPT !.live = @ + 1, !.live_raised = @ + 1]
               /\ use_bbg' = LiveFailureHandler.use_bbg
               /\ pc' = LiveFailureHandler.pc
               /\ UNCHANGED index_df
    /\ UNCHANGED <<config_use_bbg, data_manual, div_df, saved, pull_exit,
                   cleanVars, combineVars, table1Vars, scriptVars, laterVars>>

(* div_df = pull_bbg_dividend_data(START_DATE, END_DATE): a blp.bdh        *)
(* request for the yields, then pull_bbg_data for the prices               *)
pull_bbg_dividend_data ==
    /\ pc = "live_dividend"
    /\ \E requests \in 1..2, ok \in BOOLEAN :
          IF ok /\ requests = 2
          THEN /\ div_df' = Table("bloomberg", BbgDividendColumns)
               /\ calls' = [calls EXCEPT !.live = @ + 2]
               /\ pc' = "fallback"
               /\ UNCHANGED use_bbg
          ELSE /\ ~ok
               /\ calls' = [calls EXCEPT !.live = @ + requests, !.live_raised = @ + 1]
               /\ use_bbg' = LiveFailureHandler.use_bbg
               /\ pc' = LiveFailureHandler.pc
               /\ UNCHANGED div_df
    /\ UNCHANGED <<config_use_bbg, data_manual, index_df, saved, pull_exit,
                   cleanVars, combineVars, table1Vars, scriptVars, laterVars>>

(* line 259 and the first half of the try block: load_bbg_excel *)
fallback_index ==
    /\ pc = "fallback"
    /\ IF ~use_bbg \/ index_df = NoTable \/ div_df = NoTable
       THEN IF index_df = NoTable
            THEN LET o == LoadBbgExcel(data_manual.index) IN
                 /\ calls' = [calls EXCEPT !.load_bbg_excel = @ + 1]
                 /\ index_df' = o.table
                 /\ IF o.status = "ok"
                    THEN pc' = "fallback_dividend" /\ UNCHANGED pull_exit
                    ELSE pc' = "done" /\ pull_exit' = o.status
            ELSE /\ pc' = "fallback_dividend"
                 /\ UNCHANGED <<calls, index_df, pull_exit>>
       ELSE /\ pc' = "save_index"
            /\ UNCHANGED <<calls, index_df, pull_exit>>
    /\ UNCHANGED <<config_use_bbg, use_bbg, data_manual, div_df, saved,
                   cleanVars, combineVars, table1Vars, scriptVars, laterVars>>

(* the second half of the try block: load_dividend_excel *)
fallback_dividend ==
    /\ pc = "fallback_dividend"
    /\ IF div_df = NoTable
       THEN LET o == LoadDividendExcel(data_manual.dividend) IN
            /\ calls' = [calls EXCEPT !.load_dividend_excel = @ + 1]
            /\ div_df' = o.table
            /\ IF o.status = "ok"
               THEN pc' = "save_index" /\ UNCHANGED pull_exit
               ELSE pc' = "done" /\ pull_exit' = o.status
       ELSE /\ pc' = "save_index"
            /\ UNCHANGED <<calls, div_df, pull_exit>>
    /\ UNCHANGED <<config_use_bbg, use_bbg, data_manual, index_df, saved,
                   cleanVars, combineVars, table1Vars, scriptVars, laterVars>>

(* to_parquet refuses a table with a repeated column label (ValueError) *)
HasDuplicateColumns(t) ==
    \E i, j \in 1..Len(t.columns) : i # j /\ t.columns[i] = t.columns[j]

(* lines 277-290 *)
save_index ==
    /\ pc = "save_index"
    /\ IF index_df = NoTable
       THEN pc' = "save_dividend" /\ UNCHANGED <<saved, pull_exit>>
       ELSE IF HasDuplicateColumns(index_df)
       THEN pc' = "done" /\ pull_exit' = "ValueError" /\ UNCHANGED saved
       ELSE /\ saved' = SaveAs(saved, use_bbg, "index", index_df)
            /\ pc' = "save_dividend"
            /\ UNCHANGED pull_exit
    /\ UNCHANGED <<config_use_bbg, use_bbg, data_manual, index_df, div_df, calls,
                   cleanVars, combineVars, table1Vars, scriptVars, laterVars>>

(* lines 292-307 *)
save_dividend ==
    /\ pc = "save_dividend"
    /\ IF div_df = NoTable
       THEN pc' = "done" /\ pull_exit' = "ok" /\ UNCHANGED saved
       ELSE IF HasDuplicateColumns(div_df)
       THEN pc' = "done" /\ pull_exit' = "ValueError" /\ UNCHANGED saved
       ELSE /\ saved' = SaveAs(saved, use_bbg, "dividend", div_df)
            /\ pc' = "done"
            /\ pull_exit' = "ok"
    /\ UNCHANGED <<config_use_bbg, use_bbg, data_manual, index_df, div_df, calls,
                   cleanVars, combineVars, table1Vars, scriptVars, laterVars>>

NextPull ==
    \/ live_disabled
    \/ pull_bbg_data
    \/ pull_bbg_dividend_data
    \/ fallback_index
    \/ fallback_dividend
    \/ save_index
    \/ save_dividend

SpecPull == InitPull /\ [][NextPull]_vars

-----------------------------------------------------------------------------
(* clean_data __main__ (lines 237-311): the pass up to PAPER_END_DT and,   *)
(* when CURR_END_DT differs, the pass up to CURR_END_DT.  end_date starts  *)
(* as PAPER_END_DT; pc is "<pass>:<stage>" or "exit".                      *)

CURR_END_DT == START_DT + 2

Passes == {"paper", "current"}

(* the files of lines 242-272 and 286-305 *)
ArtifactName(pass, stage) ==
    IF pass = "paper"
    THEN CASE stage = "index"    -> "cleaned_index_data.parquet"
           [] stage = "dividend" -> "cleaned_dividend_data.parquet"
           [] stage = "yields"   -> "calculated_yields.parquet"
           [] stage = "combine"  -> "combined_data.parquet"
    ELSE CASE stage = "index"    -> "cleaned_current_index_data.parquet"
           [] stage = "dividend" -> "cleaned_current_dividend_data.parquet"
           [] stage = "yields"   -> "calculated_current_yields.parquet"
           [] stage = "combine"  -> "combined_current_data.parquet"

(* contents of the raw files of a script run: dates in order, dates out of *)
(* order, and (dividends) a repeated date                                  *)
ScriptIndexFiles ==
    {RawFrame(<<1, 2>>, "SPX Index", <<Num(2), Num(2)>>),
     RawFrame(<<3, 1>>, "SPX Index", <<Num(2), Num(2)>>)}
ScriptDividendFiles ==
    {RawFrame(<<1>>, "SPX Index_DIV", <<Num(1)>>),
     RawFrame(<<3, 1>>, "SPX Index_DIV", <<Num(1), Num(1)>>),
     RawFrame(<<1, 1>>, "SPX Index_DIV", <<Num(1), Num(1)>>)}

InitScript ==
    /\ IdleLater
    /\ pc = "paper:index"
    /\ use_bbg \in BOOLEAN
    /\ config_use_bbg = use_bbg
    /\ \E S \in SUBSET RawFiles, ci \in ScriptIndexFiles, cd \in ScriptDividendFiles :
          data_dir = [f \in S |->
                        IF f \in {CleanerPath(TRUE, "index"), CleanerPath(FALSE, "index")}
                        THEN ci ELSE cd]
    /\ end_date \in EndDates
    /\ df = EmptyFrame
    /\ path = ""
    /\ df_sorted = EmptyFrame
    /\ cleaned = NoOutcome
    /\ refilled = EmptyFrame
    /\ IdlePullRun
    /\ IdleScriptRun
    /\ IdleCombine
    /\ IdleTable1

(* except FileNotFoundError (lines 276 and 309) *)
CaughtByScript(e) == e = "FileNotFoundError"

(* price_df = clean_index_data(...); price_df.to_parquet(...) *)
script_clean_index ==
    \E pass \in Passes :
        /\ pc = pass \o ":index"
        /\ CleanData("index")
        /\ IF cleaned'.status = "ok"
           THEN /\ price_df' = cleaned'.df
                /\ artifacts' = artifacts \cup {ArtifactName(pass, "index")}
                /\ pc' = pass \o ":dividend"
                /\ UNCHANGED script_exit
           ELSE /\ script_exit' = cleaned'.status
                /\ pc' = "exit"
                /\ UNCHANGED <<price_df, artifacts>>
        /\ UNCHANGED <<end_date, refilled, data_dir, dividend_df, yields_df,
                       combineVars, table1Vars, pullVars, laterVars>>

(* try: dividend_df = clean_dividend_data(...); dividend_df.to_parquet(...) *)
script_clean_dividend ==
    \E pass \in Passes :
        /\ pc = pass \o ":dividend"
        /\ CleanData("dividend")
        /\ IF cleaned'.status = "ok"
           THEN /\ dividend_df' = cleaned'.df
                /\ artifacts' = artifacts \cup {ArtifactName(pass, "dividend")}
                /\ pc' = pass \o ":yields"
                /\ UNCHANGED script_exit
           ELSE IF CaughtByScript(cleaned'.status)
           THEN /\ pc' = pass \o ":after"
                /\ UNCHANGED <<dividend_df, artifacts, script_exit>>
           ELSE /\ script_exit' = cleaned'.status
                /\ pc' = "exit"
                /\ UNCHANGED <<dividend_df, artifacts>>
        /\ UNCHANGED <<end_date, refilled, data_dir, price_df, yields_df,
                       combineVars, table1Vars, pullVars, laterVars>>

(* yields_df = calculate_yields(price_df, dividend_df); to_parquet *)
script_calculate_yields ==
    \E pass \in Passes :
        /\ pc = pass \o ":yields"
        /\ yields_df' = CalculateYields(price_df, dividend_df).out
        /\ IF yields_df'.status = "ok"
           THEN /\ artifacts' = artifacts \cup {ArtifactName(pass, "yields")}
                /\ pc' = pass \o ":combine"
                /\ UNCHANGED script_exit
           ELSE IF CaughtByScript(yields_df'.status)
           THEN /\ pc' = pass \o ":after"
                /\ UNCHANGED <<artifacts, script_exit>>
           ELSE /\ script_exit' = yields_df'.status
                /\ pc' = "exit"
                /\ UNCHANGED artifacts
        /\ UNCHANGED <<cleanVars, data_dir, path, price_df, dividend_df,
                       combineVars, table1Vars, pullVars, laterVars>>

(* combined_df = combine_data(price_df, dividend_df, yields_df); to_parquet *)
(* (and to_excel in the first pass)                                         *)
script_combine_data ==
    \E pass \in Passes :
        /\ pc = pass \o ":combine"
        /\ combined_df' = CombineData(price_df, dividend_df, yields_df.df).out
        /\ IF combined_df'.status = "ok"
           THEN /\ artifacts' = artifacts \cup {ArtifactName(pass, "combine")}
                                   \cup (IF pass = "paper" THEN {"combined_data.xlsx"} ELSE {})
                /\ pc' = pass \o ":after"
                /\ UNCHANGED script_exit
           ELSE IF CaughtByScript(combined_df'.status)
           THEN /\ pc' = pass \o ":after"
                /\ UNCHANGED <<artifacts, script_exit>>
           ELSE /\ script_exit' = combined_df'.status
                /\ pc' = "exit"
                /\ UNCHANGED artifacts
        /\ UNCHANGED <<cleanVars, data_dir, path, price_df, dividend_df, yields_df,
                       price_data, dividend_data, yield_data, regrouped, oid,
                       table1Vars, pullVars, laterVars>>

(* line 281: if PAPER_END_DT != CURR_END_DT the second pass starts, else   *)
(* the script ends                                                         *)
script_next_pass ==
    \E pass \in Passes :
        /\ pc = pass \o ":after"
        /\ IF pass = "paper" /\ end_date # CURR_END_DT
           THEN /\ pc' = "current:index"
                /\ end_date' = CURR_END_DT
                /\ UNCHANGED script_exit
           ELSE /\ pc' = "exit"
                /\ script_exit' = "ok"
                /\ UNCHANGED end_date
        /\ UNCHANGED <<df, df_sorted, cleaned, refilled, data_dir, path, price_df,
                       dividend_df, yields_df, artifacts, combineVars, table1Vars,
                       pullVars, laterVars>>

NextScript ==
    \/ script_clean_index
    \/ script_clean_dividend
    \/ script_calculate_yields
    \/ script_combine_data
    \/ script_next_pass

SpecScript == InitScript /\ [][NextScript]_vars

-----------------------------------------------------------------------------
(* TABLE1 create_scatter_plot (lines 304-348), main's return value (lines  *)
(* 376-384) and figure5_replicate prepare_figure5_data (lines 67-114)      *)

LinspacePoints == 3    \* points of np.linspace (100 in the source)
MaxPlotRows == 2       \* rows of the reg_data handed to create_scatter_plot
MaxForecastRows == 2   \* rows of the forecast table

(* a + b on floats: NaN propagates, inf + -inf is NaN *)
FloatAdd(a, b) ==
    IF IsNull(a) \/ IsNull(b) THEN NaN
    ELSE IF a[2] = 0 /\ b[2] = 0 THEN (IF a = b THEN a ELSE NaN)
    ELSE IF a[2] = 0 THEN a
    ELSE IF b[2] = 0 THEN b
    ELSE Normalise(a[1] * b[2] + b[1] * a[2], a[2] * b[2])

(* a * b on floats: NaN propagates, inf * 0 is NaN *)
FloatMul(a, b) ==
    IF IsNull(a) \/ IsNull(b) THEN NaN
    ELSE Normalise(a[1] * b[1], a[2] * b[2])

(* a < b on non-null floats *)
FloatLess(a, b) == a # b /\ a[1] * b[2] < b[1] * a[2]

(* Series.min() and Series.max(): nulls are skipped, NaN when nothing is left *)
SeriesMin(vals) ==
    LET S == {v \in Range(vals) : NotNull(v)} IN
    IF S = {} THEN NaN ELSE CHOOSE m \in S : \A v \in S : ~FloatLess(v, m)
SeriesMax(vals) ==
    LET S == {v \in Range(vals) : NotNull(v)} IN
    IF S = {} THEN NaN ELSE CHOOSE m \in S : \A v \in S : ~FloatLess(m, v)

(* np.linspace(start, stop, num): start + k * (stop - start) / (num - 1) *)
Linspace(start, stop, num) ==
    [k \in 1..num |->
        IF k = 1 THEN start
        ELSE FloatAdd(start, FloatMul(Num(k - 1),
                 FloatDiv(FloatSub(stop, start), Num(num - 1))))]

(* variant: the region's dummy coefficient is added to the line *)
FittedLineWithDummy(p, xs) ==
    [k \in 1..Len(xs) |->
        FloatAdd(FloatAdd(Num(p.const), Num(p.eurostoxx_dummy)),
                 FloatMul(Num(p.equity_yield_2y), xs[k]))]

(* y_pred = results.params['const'] + results.params['equity_yield_2y'] * x_range *)
FittedLine(p, xs) ==
    [k \in 1..Len(xs) |->
        FloatAdd(Num(p.const), FloatMul(Num(p.equity_yield_2y), xs[k]))]

(* the dictionary main() returns *)
MainReturn(p, fit) ==
    [intercept |-> p.const, eu_dummy |-> p.eurostoxx_dummy,
     nikkei_dummy |-> p.nikkei_dummy, equity_yield_coef |-> p.equity_yield_2y,
     n_obs |-> fit.nobs]

(* figure 5 *)
Fig5Regions == <<"US", "EU", "JP">>
ExpectedDivGrowthName(region) == region \o "_Expected_Div_Growth"
DividendGrowthName(region) == region \o "_Dividend_Growth"
GdpGrowthName(region) == region \o "_GDP_Growth"

(* variant: one factor for every region *)
ConversionFactorsUniform(region) == <<67, 100>>

(* conversion_factors = {'US': 0.67, 'EU': 0.33, 'JP': 0.46} *)
ConversionFactors(region) ==
    CASE region = "US" -> <<67, 100>>
      [] region = "EU" -> <<33, 100>>
      [] region = "JP" -> <<23, 50>>

(* dividend_growth * conversion_factors[region] *)
ConvertDividendToGdpGrowth(dividend_growth, region) ==
    [i \in 1..Len(dividend_growth) |->
        FloatMul(dividend_growth[i], ConversionFactors(region))]

RECURSIVE Fig5Loop(_, _, _)
Fig5Loop(forecast_data, fig5, k) ==
    IF k > Len(Fig5Regions) THEN fig5
    ELSE LET region == Fig5Regions[k]
             div_growth_col == ExpectedDivGrowthName(region)
         IN  IF HasColumn(forecast_data, div_growth_col)
             THEN Fig5Loop(forecast_data,
                      SetColumn(SetColumn(fig5, DividendGrowthName(region),
                                          ColumnVals(forecast_data, div_growth_col)),
                                GdpGrowthName(region),
                                ConvertDividendToGdpGrowth(
                                    ColumnVals(forecast_data, div_growth_col), region)),
                      k + 1)
             ELSE Fig5Loop(forecast_data, fig5, k + 1)

IsMonotonicDecreasing(idx) ==
    \A i \in 1..(Len(idx) - 1) : idx[i] >= idx[i + 1]

(* load_forecast_data raises FileNotFoundError on a missing file; the      *)
(* reindex(..., method='nearest') to the key dates raises ValueError on an *)
(* index that is not unique or not monotonic                               *)
PrepareFigure5Data(file) ==
    IF ~file.exists THEN Raised("FileNotFoundError")
    ELSE LET forecast_data == file.df
             fig5 == Fig5Loop(forecast_data,
                              [idx |-> forecast_data.idx, cols |-> <<>>], 1)
         IN  IF ~IsUnique(fig5.idx)
                \/ ~(IsMonotonicIncreasing(fig5.idx) \/ IsMonotonicDecreasing(fig5.idx))
             THEN Raised("ValueError")
             ELSE Returned(fig5)

PlotCoefficients == {-1, 0, 2}
PlotYields == {Num(-1), Num(0), Num(3)}
ForecastColumns == <<"US_Expected_Div_Growth", "EU_Expected_Div_Growth",
                     "JP_Expected_Div_Growth", "Date_Label">>
ForecastVals == {NaN, Num(1), Num(-2)}
ForecastIndexes == {<<>>, <<1>>, <<1, 2>>, <<2, 1>>, <<1, 1>>}

(* a reg_data holding the given yields *)
PlotFrame(ys) ==
    [idx  |-> Positions(Len(ys)),
     cols |-> <<[name |-> "equity_yield_2y", vals |-> ys],
                [name |-> "div_growth", vals |-> [i \in 1..Len(ys) |-> Num(0)]],
                [name |-> "index", vals |-> [i \in 1..Len(ys) |-> StrCell("sp500")]]>>]

(* a forecast table: the columns named by the positions in S, column k     *)
(* holding k at every date                                                 *)
ForecastFrame(idx, S) ==
    LET names == SelectSeq(ForecastColumns,
                           LAMBDA c : \E k \in S : ForecastColumns[k] = c)
    IN  [idx  |-> idx,
         cols |-> [c \in 1..Len(names) |->
                     [name |-> names[c],
                      vals |-> [i \in 1..Len(idx) |-> Num(c)]]]]

InitFigures ==
    /\ pc = "plot"
    /\ \/ /\ params \in [const : PlotCoefficients, eurostoxx_dummy : PlotCoefficients,
                          nikkei_dummy : PlotCoefficients,
                          equity_yield_2y : PlotCoefficients]
          /\ \E n \in 0..MaxPlotRows : \E ys \in [1..n -> PlotYields] :
                pooled_data = Returned(PlotFrame(ys))
          /\ forecast_file \in {[exists |-> FALSE, df |-> EmptyFrame],
                                [exists |-> TRUE, df |-> ForecastFrame(<<1, 2>>, {1, 2})]}
       \/ /\ params = [const |-> 2, eurostoxx_dummy |-> -1, nikkei_dummy |-> 2,
                       equity_yield_2y |-> -1]
          /\ pooled_data = Returned(PlotFrame(<<Num(0), Num(3)>>))
          /\ \/ \E idx \in ForecastIndexes, S \in SUBSET (1..Len(ForecastColumns)) :
                   forecast_file = [exists |-> TRUE, df |-> ForecastFrame(idx, S)]
             \/ \E c \in 1..Len(ForecastColumns), n \in 1..MaxForecastRows :
                   \E vs \in [1..n -> ForecastVals] :
                      forecast_file =
                         [exists |-> TRUE,
                          df |-> [idx  |-> Positions(n),
                                  cols |-> <<[name |-> ForecastColumns[c],
                                              vals |-> vs]>>]]
    /\ regression = [status |-> "ok", nobs |-> NRows(pooled_data.df)]
    /\ x_range = <<>>
    /\ y_pred = <<>>
    /\ fig5_data = NoOutcome
    /\ div_data = EmptyFrame
    /\ futures_data = EmptyFrame
    /\ equity_yields = NoOutcome
    /\ reg_data = EmptyFrame
    /\ IdleClean
    /\ IdleCombine
    /\ IdlePull
    /\ IdleScript
    /\ IdleMain
    /\ IdleTests
    /\ IdleRuns
    /\ IdleDoit

(* create_scatter_plot(reg_data, results, output_file): the fitted line *)
create_scatter_plot ==
    /\ pc = "plot"
    /\ LET yields == ColumnVals(pooled_data.df, "equity_yield_2y") IN
       x_range' = Linspace(SeriesMin(yields), SeriesMax(yields), LinspacePoints)
    /\ y_pred' = FittedLine(params, x_range')
    /\ pc' = "figure5"
    /\ UNCHANGED <<params, forecast_file, fig5_data, cleanVars, combineVars,
                   table1Vars, pullVars, scriptVars, mainVars, testVars, runsVars,
                   doitVars>>

prepare_figure5_data ==
    /\ pc = "figure5"
    /\ fig5_data' = PrepareFigure5Data(forecast_file)
    /\ pc' = "done"
    /\ UNCHANGED <<params, x_range, y_pred, forecast_file, cleanVars, combineVars,
                   table1Vars, pullVars, scriptVars, mainVars, testVars, runsVars,
                   doitVars>>

NextFigures == create_scatter_plot \/ prepare_figure5_data

SpecFigures == InitFigures /\ [][NextFigures]_vars

-----------------------------------------------------------------------------
(* calc_functions.calc_pct_returns (lines 9-24), called by test_figure1,   *)
(* and the import of test_clean (lines 14-20)                              *)

MaxReturnRows == 3     \* rows of clean/index_data_clean.parquet
BondMaturity == 30     \* the exponent of the yield transformation

RECURSIVE FloatPow(_, _)
FloatPow(x, n) == IF n = 0 THEN Num(1) ELSE FloatMul(x, FloatPow(x, n - 1))

yield_indices == {"USGG30YR Index", "GDBR30 Index", "GJGB30 Index"}

(* df[idx] = 100 / ((1 + df[idx]*0.01) ** 30) for the yield columns *)
YieldTransform(t) ==
    [t EXCEPT !.cols =
        [c \in 1..NCols(t) |->
            IF t.cols[c].name \in yield_indices
            THEN [name |-> t.cols[c].name,
                  vals |-> [i \in 1..NRows(t) |->
                              FloatDiv(Num(100),
                                  FloatPow(FloatAdd(Num(1),
                                               FloatMul(t.cols[c].vals[i], <<1, 100>>)),
                                           BondMaturity))]]
            ELSE t.cols[c]]]

(* Series.pct_change(): v[i] / v[i-1] - 1, the first row is NaN *)
PctChange(vals) ==
    [i \in 1..Len(vals) |->
        IF i = 1 THEN NaN ELSE FloatSub(FloatDiv(vals[i], vals[i - 1]), Num(1))]

(* Series.cumprod(): the running product of the non-null cells, a null     *)
(* cell stays null                                                         *)
RECURSIVE ProductUpTo(_, _)
ProductUpTo(vals, i) ==
    IF i = 0 THEN Num(1)
    ELSE IF IsNull(vals[i]) THEN ProductUpTo(vals, i - 1)
    ELSE FloatMul(ProductUpTo(vals, i - 1), vals[i])

Cumprod(vals) ==
    [i \in 1..Len(vals) |-> IF IsNull(vals[i]) THEN NaN ELSE ProductUpTo(vals, i)]

CalcPctReturns(file) ==
    IF ~file.exists THEN Raised("FileNotFoundError")
    ELSE LET prices == Dropna(YieldTransform(file.df)) IN
         Returned([prices EXCEPT !.cols =
             [c \in 1..NCols(prices) |->
                 [name |-> prices.cols[c].name,
                  vals |-> LET pct_change == PctChange(prices.cols[c].vals) IN
                           Cumprod([i \in 1..Len(pct_change) |->
                                       FloatAdd(Num(1), pct_change[i])])]]])

(* the functions clean_data.py defines *)
CleanDataNames == {"clean_index_data", "clean_dividend_data", "format_df",
                   "calculate_yields", "combine_data"}

(* the names test_clean imports from clean_data, in order *)
TestCleanImports == <<"clean_dividend_data", "clean_dividend_futures_data",
                      "resample_to_quarterly", "merge_dividend_data",
                      "clean_index_data">>

(* from module import a, b, ...: the names are bound in order until one is *)
(* not an attribute of the module, which raises ImportError                *)
RECURSIVE ImportFrom(_, _, _, _)
ImportFrom(module, names, k, bound) ==
    IF k > Len(names) THEN [status |-> "ok", names |-> bound]
    ELSE IF names[k] \notin module THEN [status |-> "ImportError", names |-> bound]
    ELSE ImportFrom(module, names, k + 1, bound \cup {names[k]})

ReturnPrices == {NaN, Num(0), Num(1), Num(2)}
ReturnYields == {NaN, Num(0), Num(-100)}

InitTests ==
    /\ pc = "test_figure1"
    /\ \/ index_data_clean = [exists |-> FALSE, df |-> EmptyFrame]
       \/ \E n \in 0..MaxReturnRows : \E vs \in [1..n -> ReturnPrices] :
             index_data_clean =
                [exists |-> TRUE,
                 df |-> [idx |-> Positions(n),
                         cols |-> <<[name |-> "SPX Index", vals |-> vs]>>]]
       \/ \E n \in 1..2 : \E vs \in [1..n -> ReturnYields], ps \in [1..n -> {NaN, Num(2)}] :
             index_data_clean =
                [exists |-> TRUE,
                 df |-> [idx |-> Positions(n),
                         cols |-> <<[name |-> "SPX Index", vals |-> ps],
                                    [name |-> "USGG30YR Index", vals |-> vs]>>]]
    /\ cum_returns = NoOutcome
    /\ imported = [status |-> "none", names |-> {}]
    /\ IdleClean
    /\ IdleCombine
    /\ IdleTable1
    /\ IdlePull
    /\ IdleScript
    /\ IdleMain
    /\ IdleFigures
    /\ IdleRuns
    /\ IdleDoit

(* test_figure1: returns = calc_pct_returns(DATA_DIR) *)
calc_pct_returns ==
    /\ pc = "test_figure1"
    /\ cum_returns' = CalcPctReturns(index_data_clean)
    /\ pc' = "test_clean"
    /\ UNCHANGED <<index_data_clean, imported, cleanVars, combineVars, table1Vars,
                   pullVars, scriptVars, mainVars, figureVars, runsVars, doitVars>>

(* test_clean: from clean_data import (...) *)
import_test_clean ==
    /\ pc = "test_clean"
    /\ imported' = ImportFrom(CleanDataNames, TestCleanImports, 1, {})
    /\ pc' = "done"
    /\ UNCHANGED <<index_data_clean, cum_returns, cleanVars, combineVars, table1Vars,
                   pullVars, scriptVars, mainVars, figureVars, runsVars, doitVars>>

NextTests == calc_pct_returns \/ import_test_clean

SpecTests == InitTests /\ [][NextTests]_vars

-----------------------------------------------------------------------------
(* TABLE1 main() (lines 350-361) with its loaders (lines 34-139).  The     *)
(* loaders simulate their tables from numpy's global generator: rng is its *)
(* state [seed, n], n the number of values drawn since seeding.  Which     *)
(* value a position of a stream holds is fixed but unknown: generator      *)
(* selects one assignment.  A simulated dividend is base * seasonality *   *)
(* draw, the compounding factor (1 + growth_rate) ** i being left at 1;    *)
(* the quarters 2006-2017 are the quarters 1..SimQuarters.                 *)

SimQuarters == 5       \* quarters of the simulated tables (48 in the source)
MaxGenerator == 3      \* assignments of values to stream positions

(* np.random.normal(...) at position n of the stream seeded with seed *)
Draw(g, r) == Num(1 + ((r.seed + g * r.n + (r.n \div 2)) % 2))

(* np.random.seed(seed) *)
Seed(seed) == [seed |-> seed, n |-> 0]

Advance(r, k) == [r EXCEPT !.n = r.n + k]

base_div(index_name) ==
    CASE index_name = "sp500" -> Num(10)
      [] index_name = "eurostoxx" -> Num(8)
      [] index_name = "nikkei" -> Num(9)

seasonality(index_name) ==
    CASE index_name = "sp500" -> <<Num(1), <<9, 10>>, <<11, 10>>, Num(1)>>
      [] index_name = "eurostoxx" -> <<<<13, 10>>, <<7, 10>>, <<4, 5>>, <<6, 5>>>>
      [] index_name = "nikkei" -> <<<<6, 5>>, <<4, 5>>, <<9, 10>>, <<11, 10>>>>

(* the table the loop of lines 71-90 fills, drawing from the generator     *)
(* state r0: quarter i (from 0) takes the draws 3i, 3i+1, 3i+2             *)
SimulatedDividends(g, r0) ==
    [idx  |-> Positions(SimQuarters),
     cols |-> [k \in 1..Len(Regions) |->
                 [name |-> DivName(Regions[k]),
                  vals |-> [q \in 1..SimQuarters |->
                              FloatMul(FloatMul(base_div(Regions[k]),
                                                seasonality(Regions[k])[((q - 1) % 4) + 1]),
                                       Draw(g, Advance(r0, 3 * (q - 1) + (k - 1))))]]]]

(* variant: load_dividend_data without np.random.seed(42) *)
LoadDividendDataUnseeded(g, r) ==
    [rng |-> Advance(r, 3 * SimQuarters), df |-> SimulatedDividends(g, r), reads |-> {}]

(* load_dividend_data(): [rng, df, reads], the generator state it leaves,  *)
(* the table it returns and the files it read                              *)
LoadDividendData(g, r) ==
    [rng |-> Advance(Seed(42), 3 * SimQuarters),
     df |-> SimulatedDividends(g, Seed(42)),
     reads |-> {}]

(* load_dividend_futures_data(): np.random.seed(43), then its own          *)
(* load_dividend_data(), then two draws per region and quarter             *)
LoadDividendFuturesData(g, r) ==
    LET loaded == LoadDividendData(g, Seed(43))
        div == loaded.df
        r0 == loaded.rng
    IN  [rng |-> Advance(r0, 6 * SimQuarters),
         base |-> div,
         df |-> [idx  |-> Positions(SimQuarters),
                 cols |-> [k \in 1..Len(Regions) |->
                    [name |-> FuturesName(Regions[k]),
                     vals |-> [q \in 1..SimQuarters |->
                        LET at == 6 * (q - 1) + 2 * (k - 1) IN
                        FloatMul(FloatMul(div.cols[k].vals[q],
                                          Draw(g, Advance(r0, at))),
                                 Draw(g, Advance(r0, at + 1)))]]]],
         reads |-> loaded.reads]

InitMain ==
    /\ pc = "main"
    /\ generator \in 0..MaxGenerator
    /\ rng \in [seed : {0, 42, 43}, n : 0..2]
    /\ run = 1
    /\ first_run = [NoRun EXCEPT !.start = rng]
    /\ futures_base = EmptyFrame
    /\ main_reads = {}
    /\ use_bbg \in BOOLEAN
    /\ config_use_bbg = use_bbg
    /\ \/ data_dir = EmptyDir
       \/ \E ci \in ScriptIndexFiles : data_dir = (CleanerPath(use_bbg, "index") :> ci)
    /\ div_data = EmptyFrame
    /\ futures_data = EmptyFrame
    /\ equity_yields = NoOutcome
    /\ reg_data = EmptyFrame
    /\ pooled_data = NoOutcome
    /\ regression = NoFit
    /\ IdleClean
    /\ IdleCombine
    /\ IdlePullRun
    /\ path = ""
    /\ IdleScriptRun
    /\ IdleFigures
    /\ IdleTests
    /\ IdleRuns
    /\ IdleDoit

(* div_data = load_dividend_data() *)
load_dividend_data ==
    /\ pc = "main"
    /\ LET loaded == LoadDividendData(generator, rng) IN
       /\ div_data' = loaded.df
       /\ rng' = loaded.rng
       /\ main_reads' = main_reads \cup loaded.reads
    /\ pc' = "main:futures"
    /\ UNCHANGED <<generator, run, first_run, futures_base, futures_data,
                   equity_yields, reg_data, pooled_data, regression, cleanVars,
                   combineVars, pullVars, scriptVars, figureVars, testVars, runsVars,
                   doitVars>>

(* futures_data = load_dividend_futures_data() *)
load_dividend_futures_data ==
    /\ pc = "main:futures"
    /\ LET loaded == LoadDividendFuturesData(generator, rng) IN
       /\ futures_data' = loaded.df
       /\ futures_base' = loaded.base
       /\ rng' = loaded.rng
       /\ main_reads' = main_reads \cup loaded.reads
    /\ pc' = "loaded"
    /\ UNCHANGED <<generator, run, first_run, div_data, equity_yields, reg_data,
                   pooled_data, regression, cleanVars, combineVars, pullVars,
                   scriptVars, figureVars, testVars, runsVars, doitVars>>

(* a second execution of main(): in the same interpreter, or in a new one  *)
(* started in the state the first one started in                           *)
main_again ==
    /\ pc = "fitted"
    /\ run = 1
    /\ run' = 2
    /\ \E r \in {rng, first_run.start} :
          /\ rng' = r
          /\ first_run' = [div_data |-> div_data, futures_data |-> futures_data,
                           pooled_data |-> pooled_data, regression |-> regression,
                           start |-> first_run.start, restart |-> r]
    /\ div_data' = EmptyFrame
    /\ futures_data' = EmptyFrame
    /\ futures_base' = EmptyFrame
    /\ equity_yields' = NoOutcome
    /\ reg_data' = EmptyFrame
    /\ pooled_data' = NoOutcome
    /\ regression' = NoFit
    /\ pc' = "main"
    /\ UNCHANGED <<generator, main_reads, cleanVars, combineVars, pullVars,
                   scriptVars, figureVars, testVars, runsVars, doitVars>>

NextMain ==
    \/ load_dividend_data
    \/ load_dividend_futures_data
    \/ calculate_equity_yields
    \/ prepare_regression_data
    \/ run_regression
    \/ main_again

SpecMain == InitMain /\ [][NextMain]_vars

-----------------------------------------------------------------------------
(* Runs of the pull script one after the other on the same DATA_DIR,       *)
(* followed by the file choice of the two cleaners.  saved is DATA_DIR: a  *)
(* later run overwrites the files it names and leaves the others.          *)

MaxPullRuns == 2       \* pull runs before the cleaners run

Kinds == {"index", "dividend"}

(* the raw files a finished run has written (lines 277-305): each table it *)
(* holds, under the name USE_BBG gives it at the end of the run            *)
WrittenByRun ==
    IF pull_exit # "ok" THEN {}
    ELSE {RawFileName(use_bbg, "index") : x \in {index_df} \ {NoTable}}
            \cup {RawFileName(use_bbg, "dividend") : x \in {div_df} \ {NoTable}}

(* DATA_DIR as the cleaners see it *)
SavedDir == [f \in {sv.file : sv \in saved} |-> TRUE]

InitRuns ==
    /\ pc = "start"
    /\ config_use_bbg \in BOOLEAN
    /\ use_bbg = config_use_bbg
    /\ \E si \in {NoSheet, Sheet(<<"Date", "S&P 500">>),
                  Sheet(<<"Date", "S&P 500", "Nikkei 225">>)},
          sd \in {NoSheet, Sheet(<<"Date", "S&P 500 Dividend">>)} :
          data_manual = [index |-> si, dividend |-> sd]
    /\ index_df = NoTable
    /\ div_df = NoTable
    /\ saved = {}
    /\ calls = NoCalls
    /\ pull_exit = "running"
    /\ pull_runs = 1
    /\ last_written = {}
    /\ clean_read = [index |-> "", dividend |-> ""]
    /\ IdleClean
    /\ IdleCombine
    /\ IdleTable1
    /\ IdleScript
    /\ IdleMain
    /\ IdleFigures
    /\ IdleTests
    /\ IdleDoit

(* python pull_bloomberg.py once more: a new interpreter, the same DATA_DIR *)
pull_again ==
    /\ pc = "done"
    /\ pull_runs < MaxPullRuns
    /\ pull_runs' = pull_runs + 1
    /\ use_bbg' = config_use_bbg
    /\ index_df' = NoTable
    /\ div_df' = NoTable
    /\ calls' = NoCalls
    /\ pull_exit' = "running"
    /\ pc' = "start"
    /\ UNCHANGED <<config_use_bbg, data_manual, saved, last_written, clean_read,
                   cleanVars, combineVars, table1Vars, scriptVars, mainVars,
                   figureVars, testVars, doitVars>>

(* python clean_data.py after the last pull run: the file clean_index_data *)
(* and clean_dividend_data choose (lines 30-43, 94-107)                    *)
clean_after_pull ==
    /\ pc = "done"
    /\ last_written' = WrittenByRun
    /\ clean_read' = [kind \in Kinds |->
                        LET chosen == ChoosePath(SavedDir, config_use_bbg, kind) IN
                        IF chosen.found THEN chosen.path ELSE "FileNotFoundError"]
    /\ pc' = "cleaned"
    /\ UNCHANGED <<pull_runs, pullVars, cleanVars, combineVars, table1Vars,
                   scriptVars, mainVars, figureVars, testVars, doitVars>>

NextRuns ==
    \/ live_disabled
    \/ pull_bbg_data
    \/ pull_bbg_dividend_data
    \/ fallback_index
    \/ fallback_dividend
    \/ save_index
    \/ save_dividend
    \/ pull_again
    \/ clean_after_pull

SpecRuns == InitRuns /\ [][NextRuns]_vars

-----------------------------------------------------------------------------
(* dodo.py: the tasks of lines 119-238 under doit with an empty state      *)
(* database.  Files are named relative to DATA_DIR and OUTPUT_DIR.  doit   *)
(* makes task u a dependency of task t when a file_dep of t is a target of *)
(* u, runs the tasks named on the command line (all of them by default) in *)
(* definition order, dependencies first, reports a file_dep that does not  *)
(* exist as an error of the task without running its action, does not look *)
(* at the targets after an action, and stops at the first task that fails. *)

TaskOrder == <<"pull_bloomberg", "clean_bloomberg_data", "replicate_figure_1",
               "replicate_table_1", "replicate_figure_5">>
TaskSet == Range(TaskOrder)

SourceFiles == {"./src/settings.py", "./src/pull_bloomberg.py", "./src/clean_data.py",
                "./src/figure1_replicate.py", "./src/TABLE1_replication.py",
                "./src/figure5_replicate.py"}

FileDep(t) ==
    CASE t = "pull_bloomberg" -> {"./src/settings.py", "./src/pull_bloomberg.py"}
      [] t = "clean_bloomberg_data" -> {"./src/settings.py", "./src/clean_data.py"}
      [] t = "replicate_figure_1" ->
            {"./src/settings.py", "./src/figure1_replicate.py",
             "clean/index_data_clean.parquet"}
      [] t = "replicate_table_1" ->
            {"./src/settings.py", "./src/TABLE1_replication.py",
             "clean/merged_dividend_data_quarterly.parquet"}
      [] t = "replicate_figure_5" ->
            {"./src/settings.py", "./src/figure5_replicate.py",
             "figures/forecast_paper_dividend_growth.parquet",
             "figures/forecast_updated_dividend_growth.parquet"}

Targets(t) ==
    CASE t = "pull_bloomberg" ->
            {"dividend_data.parquet", "index_data.parquet",
             "dividend_futures_data.parquet"}
      [] t = "clean_bloomberg_data" ->
            {ArtifactName("current", stage) :
                stage \in {"index", "dividend", "yields", "combine"}}
      [] t = "replicate_figure_1" -> {"figures/figure_1.png"}
      [] t = "replicate_table_1" -> {"tables/table1_results.tex"}
      [] t = "replicate_figure_5" ->
            {"figures/paper_figure5_panel_a.png", "figures/paper_figure5_panel_b.png",
             "figures/updated_figure5_combined.png"}

(* the tasks doit runs before t *)
TaskDeps(t) == {u \in TaskSet \ {t} : FileDep(t) \cap Targets(u) # {}}

(* what the action of a task can do on the files present: [ok, files], ok  *)
(* when the script exits with 0, files the files it has written.  Which    *)
(* source is live, whether the two end dates differ and whether the data   *)
(* let every step succeed is not known to the runner.                      *)
ScriptOutcomes(t, files) ==
    CASE t = "pull_bloomberg" ->
            {[ok |-> FALSE, files |-> {}]}
               \cup {[ok |-> TRUE, files |-> {RawFileName(b, kind) : kind \in Kinds}] :
                        b \in BOOLEAN}
      [] t = "clean_bloomberg_data" ->
            LET dir == [f \in files |-> TRUE]
                written(pass) ==
                    {ArtifactName(pass, "index")} \cup
                    (IF \E b \in BOOLEAN : ChoosePath(dir, b, "dividend").found
                     THEN {ArtifactName(pass, stage) :
                              stage \in {"dividend", "yields", "combine"}}
                            \cup (IF pass = "paper" THEN {"combined_data.xlsx"} ELSE {})
                     ELSE {})
            IN  IF \A b \in BOOLEAN : ~ChoosePath(dir, b, "index").found
                THEN {[ok |-> FALSE, files |-> {}]}
                ELSE {[ok |-> FALSE, files |-> {}],
                      [ok |-> TRUE, files |-> written("paper")],
                      [ok |-> TRUE, files |-> written("paper") \cup written("current")]}
      [] t = "replicate_figure_1" ->
            IF "clean/index_data_clean.parquet" \in files
            THEN {[ok |-> TRUE, files |-> {"figures/figure1.png"}]}
            ELSE {[ok |-> FALSE, files |-> {}]}
      [] t = "replicate_table_1" ->
            {[ok |-> TRUE, files |-> {"tables/table1.tex",
                                       "figures/dividend_growth_vs_yield.png"}]}
      [] t = "replicate_figure_5" ->
            LET saved_figures(prefix) ==
                    {"figures/" \o prefix \o "figure5_panel_a.png",
                     "figures/" \o prefix \o "figure5_panel_b.png",
                     "figures/" \o prefix \o "figure5_combined.png"}
            IN  IF "figures/forecast_paper_dividend_growth.parquet" \notin files
                THEN {[ok |-> FALSE, files |-> {}]}
                ELSE IF "figures/forecast_updated_dividend_growth.parquet" \notin files
                THEN {[ok |-> FALSE, files |-> saved_figures("paper_")]}
                ELSE {[ok |-> TRUE,
                       files |-> saved_figures("paper_") \cup saved_figures("updated_")]}

(* data files that may be left in the directories before the run *)
LeftoverFiles == {"clean/index_data_clean.parquet",
                  "clean/merged_dividend_data_quarterly.parquet",
                  "figures/forecast_paper_dividend_growth.parquet",
                  "figures/forecast_updated_dividend_growth.parquet",
                  "excel_index_data.parquet"}

InitDoit ==
    /\ pc = "doit"
    /\ selected \in (SUBSET TaskSet) \ {{}}
    /\ \E S \in SUBSET LeftoverFiles : disk = SourceFiles \cup S
    /\ status = [t \in TaskSet |-> "pending"]
    /\ IdleClean
    /\ IdleCombine
    /\ IdleTable1
    /\ IdlePull
    /\ IdleScript
    /\ IdleMain
    /\ IdleFigures
    /\ IdleTests
    /\ IdleRuns

RECURSIVE Needed(_)
Needed(S) ==
    LET more == S \cup UNION {TaskDeps(t) : t \in S} IN
    IF more = S THEN S ELSE Needed(more)

(* the task doit takes next: the first pending one, in definition order,   *)
(* whose dependencies have run; none once a task has failed                *)
Runnable(t) ==
    /\ t \in Needed(selected)
    /\ status[t] = "pending"
    /\ \A u \in TaskSet : status[u] \in {"pending", "ok"}
    /\ \A u \in TaskDeps(t) : status[u] = "ok"
    /\ \A k \in 1..Len(TaskOrder) :
          (TaskOrder[k] = t) =>
             \A j \in 1..(k - 1) :
                ~(/\ TaskOrder[j] \in Needed(selected)
                  /\ status[TaskOrder[j]] = "pending"
                  /\ \A u \in TaskDeps(TaskOrder[j]) : status[u] = "ok")

(* a file_dep of the task does not exist: the action is not run *)
dependency_error ==
    \E t \in TaskSet :
        /\ Runnable(t)
        /\ ~(FileDep(t) \subseteq disk)
        /\ status' = [status EXCEPT ![t] = "DependencyError"]
        /\ UNCHANGED <<pc, selected, disk, cleanVars, combineVars, table1Vars,
                       pullVars, scriptVars, mainVars, figureVars, testVars, runsVars>>

(* the action of the task runs *)
run_task ==
    \E t \in TaskSet :
        /\ Runnable(t)
        /\ FileDep(t) \subseteq disk
        /\ \E o \in ScriptOutcomes(t, disk) :
              /\ disk' = disk \cup o.files
              /\ status' = [status EXCEPT ![t] = IF o.ok THEN "ok" ELSE "failed"]
        /\ UNCHANGED <<pc, selected, cleanVars, combineVars, table1Vars,
                       pullVars, scriptVars, mainVars, figureVars, testVars, runsVars>>

NextDoit == dependency_error \/ run_task

SpecDoit == InitDoit /\ [][NextDoit]_vars

-----------------------------------------------------------------------------
(* Properties of the cleaner (SpecClean) *)

RawCell(c, r)    == df.cols[c].vals[r]
SortedCell(c, i) == df_sorted.cols[c].vals[i]
CleanCell(c, i)  == cleaned.df.cols[c].vals[i]
RawInWindow(r)   == START_DT <= df.idx[r] /\ df.idx[r] <= end_date

(* C1: every row date of a table returned by clean_index_data /            *)
(* clean_dividend_data lies in the inclusive window [START_DT, end_date].  *)
C1_RowsInsideWindow ==
    cleaned.status = "ok" =>
        \A i \in 1..NRows(cleaned.df) :
            START_DT <= cleaned.df.idx[i] /\ cleaned.df.idx[i] <= end_date

C1_Witness ==
    /\ cleaned.status = "ok"
    /\ NRows(cleaned.df) >= 1
    /\ \E r \in 1..NRows(df) : df.idx[r] < START_DT
    /\ \E r \in 1..NRows(df) : df.idx[r] > end_date

(* C2: the date index of every returned cleaned table is strictly          *)
(* increasing, so it holds no date twice, whatever the raw row order and   *)
(* whatever dates the raw table repeats.                                   *)
C2_StrictlyIncreasingIndex ==
    cleaned.status = "ok" =>
        \A i \in 1..(NRows(cleaned.df) - 1) :
            cleaned.df.idx[i] < cleaned.df.idx[i + 1]

(* C3: in a returned table a column with a non-null raw value inside the   *)
(* window holds no null, and a cell that was missing and has a non-null    *)
(* cell above it in date order holds the nearest such cell's value.        *)
C3_FilledFromLastEarlier ==
    cleaned.status = "ok" =>
        \A c \in 1..NCols(cleaned.df) :
            /\ (\E r \in 1..NRows(df) : RawInWindow(r) /\ NotNull(RawCell(c, r)))
                  => \A i \in 1..NRows(cleaned.df) : NotNull(CleanCell(c, i))
            /\ \A i \in 1..NRows(cleaned.df) : \A j \in 1..(i - 1) :
                  ( /\ IsNull(SortedCell(c, i))
                    /\ NotNull(SortedCell(c, j))
                    /\ \A k \in (j + 1)..(i - 1) : IsNull(SortedCell(c, k)) )
                  => CleanCell(c, i) = SortedCell(c, j)

C3_Witness ==
    /\ cleaned.status = "ok"
    /\ \E c \in 1..NCols(cleaned.df) : \E i \in 2..(NRows(cleaned.df) - 1) :
          /\ IsNull(SortedCell(c, i))
          /\ NotNull(SortedCell(c, i - 1))
          /\ NotNull(SortedCell(c, i + 1))
          /\ SortedCell(c, i - 1) # SortedCell(c, i + 1)
          /\ CleanCell(c, i) = SortedCell(c, i - 1)

(* C4 as claimed: a missing cell at date t whose RAW series holds a valid  *)
(* value at an earlier date is never given a value observed after t: its   *)
(* value is one the raw series holds at a date <= t.                       *)
C4_NoBackfillAfterRawValue ==
    cleaned.status = "ok" =>
        \A c \in 1..NCols(cleaned.df) : \A i \in 1..NRows(cleaned.df) :
            ( /\ IsNull(SortedCell(c, i))
              /\ \E r \in 1..NRows(df) :
                    df.idx[r] < cleaned.df.idx[i] /\ NotNull(RawCell(c, r)) )
            => \E r \in 1..NRows(df) :
                  /\ df.idx[r] <= cleaned.df.idx[i]
                  /\ CleanCell(c, i) = RawCell(c, r)

(* C4 amended: a missing cell at date t whose series holds a valid value   *)
(* at an earlier date INSIDE the window is given a value the series holds  *)
(* inside the window at a date <= t, never one observed after t.           *)
C4_NoBackfillAfterWindowValue ==
    cleaned.status = "ok" =>
        \A c \in 1..NCols(cleaned.df) : \A i \in 1..NRows(cleaned.df) :
            ( /\ IsNull(SortedCell(c, i))
              /\ \E r \in 1..NRows(df) :
                    /\ RawInWindow(r)
                    /\ df.idx[r] < cleaned.df.idx[i]
                    /\ NotNull(RawCell(c, r)) )
            => \E r \in 1..NRows(df) :
                  /\ RawInWindow(r)
                  /\ df.idx[r] <= cleaned.df.idx[i]
                  /\ NotNull(RawCell(c, r))
                  /\ CleanCell(c, i) = RawCell(c, r)

C4_Witness ==
    /\ cleaned.status = "ok"
    /\ \E c \in 1..NCols(cleaned.df) : \E i \in 1..NRows(cleaned.df) :
          /\ IsNull(SortedCell(c, i))
          /\ \E r \in 1..NRows(df) :
                /\ RawInWindow(r)
                /\ df.idx[r] < cleaned.df.idx[i]
                /\ NotNull(RawCell(c, r))
          /\ \E r \in 1..NRows(df) :
                /\ RawInWindow(r)
                /\ df.idx[r] > cleaned.df.idx[i]
                /\ NotNull(RawCell(c, r))
                /\ RawCell(c, r) # CleanCell(c, i)

(* C5: ffill().bfill() applied to a table the cleaner has already filled   *)
(* returns that table unchanged.                                           *)
C5_FillIdempotent ==
    pc = "refilled" => refilled = cleaned.df

C5_Witness ==
    /\ pc = "refilled"
    /\ NRows(cleaned.df) >= 2
    /\ cleaned.df # df_sorted
    /\ \E c \in 1..NCols(cleaned.df) :
          /\ IsNull(SortedCell(c, 1))
          /\ \E i \in 2..NRows(cleaned.df) : NotNull(SortedCell(c, i))


-----------------------------------------------------------------------------
(* Properties of calculate_yields and combine_data (SpecCombine) *)

Inputs == {price_data, dividend_data, yield_data}

(* the rows of input t dated d or earlier *)
AtOrBefore(t, d) == {k \in 1..NRows(t) : t.idx[k] <= d}

SameTable(a, b) ==
    /\ a.idx = b.idx
    /\ Columns(a) = Columns(b)
    /\ NCols(a) = NCols(b)
    /\ \A nm \in Columns(a) : ColumnVals(a, nm) = ColumnVals(b, nm)

(* C7: for tables of pairwise different column names, every argument order *)
(* of combine_data and both groupings (a merged pair merged with the third *)
(* table) give the index and the column values of combine_data(A, B, C).   *)
C7_MergeOrderIndependent ==
    pc = "regrouped" =>
        \A k \in 1..Len(regrouped) : SameTable(regrouped[k], combined_df.df)

C7_Witness ==
    /\ pc = "regrouped"
    /\ NRows(price_data) >= 1 /\ NRows(dividend_data) >= 1 /\ NRows(yield_data) >= 1
    /\ price_data.idx # dividend_data.idx
    /\ dividend_data.idx # yield_data.idx
    /\ price_data.idx # yield_data.idx
    /\ \E k \in 1..Len(regrouped) : regrouped[k].cols # combined_df.df.cols
    /\ \A k \in 1..Len(regrouped) : regrouped[k].idx = combined_df.df.idx

(* C8: a call of calculate_yields or combine_data leaves each argument     *)
(* table as it was (same object, same index, columns and values) and       *)
(* returns a table that is none of its arguments.                          *)
C8_CallsArePure ==
    [][ /\ (pc = "tables" /\ pc' = "yields") =>
            /\ price_data' = price_data
            /\ dividend_data' = dividend_data
            /\ oid'.price_data = oid.price_data
            /\ oid'.dividend_data = oid.dividend_data
            /\ oid'.yield_data \notin {oid.price_data, oid.dividend_data}
        /\ (pc \in {"tables", "yields"} /\ pc' = "combined") =>
            /\ price_data' = price_data
            /\ dividend_data' = dividend_data
            /\ yield_data' = yield_data
            /\ oid'.price_data = oid.price_data
            /\ oid'.dividend_data = oid.dividend_data
            /\ oid'.yield_data = oid.yield_data
            /\ oid'.combined_df \notin
                  {oid.price_data, oid.dividend_data, oid.yield_data}
      ]_vars

C8_Witness ==
    /\ pc = "combined"
    /\ combined_df.status = "ok"
    /\ oid.yield_data = 4
    /\ oid.combined_df = 5
    /\ HasColumn(yield_data, "SP500_YIELD")
    /\ NRows(price_data) >= 2
    /\ NRows(combined_df.df) > NRows(price_data)
    /\ ~HasColumn(price_data, "SP500_YIELD")


-----------------------------------------------------------------------------
(* Properties of the TABLE1 derivations (SpecTable1) *)

(* C9: the forward growth of each region is null at the last 4 dates of    *)
(* the series and at every earlier date t is dividend[t+4]/dividend[t] - 1 *)
(* with the dividend exactly 4 rows later.                                 *)
C9_ForwardGrowth ==
    pc = "prepared" =>
        \A r \in RegionSet :
            LET d == ColumnVals(div_data, DivName(r))
                g == ColumnVals(reg_data, GrowthName(r))
                n == NRows(div_data)
            IN  /\ Len(g) = n
                /\ \A t \in 1..n :
                      IF t > n - 4 THEN IsNull(g[t])
                      ELSE g[t] = FloatSub(FloatDiv(d[t + 4], d[t]), Num(1))

C9_Witness ==
    /\ pc = "prepared"
    /\ NRows(div_data) = 6
    /\ \E r \in RegionSet :
          LET d == ColumnVals(div_data, DivName(r))
              g == ColumnVals(reg_data, GrowthName(r))
          IN  /\ \A t \in 1..6 : NotNull(d[t])
              /\ d[1] = Num(1) /\ d[4] = Num(1) /\ d[5] = Num(2) /\ d[6] = Num(1)
              /\ d[2] = Num(2)
              /\ g[1] = Num(1)
              /\ g[2] = <<-1, 2>>
              /\ \A t \in 3..6 : IsNull(g[t])

(* C10: the equity yield of every region and date is null exactly when the *)
(* dividend or the futures price there is null or not positive, and is the *)
(* finite value (1/2)*ln(dividend/futures) otherwise; the call never       *)
(* raises.                                                                 *)
C10_YieldNullIffNonPositive ==
    pc # "loaded" =>
        /\ equity_yields.status = "ok"
        /\ \A r \in RegionSet : \A t \in 1..NRows(div_data) :
              LET d == ColumnVals(div_data, DivName(r))[t]
                  f == ColumnVals(futures_data, FuturesName(r))[t]
                  y == ColumnVals(equity_yields.df, YieldName(r))[t]
              IN  IF IsNull(d) \/ IsNull(f) \/ d[1] <= 0 \/ f[1] <= 0
                  THEN IsNull(y)
                  ELSE y = <<FloatDiv(d, f)[1], FloatDiv(d, f)[2], 2>>

-----------------------------------------------------------------------------
(* Properties of the pooled sample and the fit (SpecTable1) *)

Pooled == pooled_data.df
PooledCell(name, i) == ColumnVals(Pooled, name)[i]

(* the rows of the pooled sample that belong to region r at date t *)
PooledRows(r, t) ==
    {i \in 1..NRows(Pooled) : PooledCell("index", i) = StrCell(r) /\ Pooled.idx[i] = t}

(* the forward growth and the equity yield of region r at row t *)
GrowthAt(r, t) == ColumnVals(reg_data, GrowthName(r))[t]
YieldAt(r, t)  == ColumnVals(equity_yields.df, YieldName(r))[t]

(* every dividend and every futures price is non-null / positive *)
FullyObserved ==
    \A r \in RegionSet : \A t \in 1..NRows(div_data) :
        /\ NotNull(ColumnVals(div_data, DivName(r))[t])
        /\ NotNull(ColumnVals(futures_data, FuturesName(r))[t])
AllPositive ==
    \A r \in RegionSet : \A t \in 1..NRows(div_data) :
        /\ ColumnVals(div_data, DivName(r))[t][1] > 0
        /\ ColumnVals(futures_data, FuturesName(r))[t][1] > 0

(* no null cell, and one row per (region, date) with both values non-null *)
PooledIsCompleteCases ==
    /\ pooled_data.status = "ok"
    /\ \A c \in 1..NCols(Pooled) : \A i \in 1..NRows(Pooled) :
          NotNull(Pooled.cols[c].vals[i])
    /\ \A r \in RegionSet : \A t \in 1..NRows(div_data) :
          Cardinality(PooledRows(r, t)) =
              IF NotNull(GrowthAt(r, t)) /\ NotNull(YieldAt(r, t)) THEN 1 ELSE 0
    /\ \A i \in 1..NRows(Pooled) :
          \E r \in RegionSet : \E t \in 1..NRows(div_data) : i \in PooledRows(r, t)

(* 3*(N-4) rows, the missing ones being the last 4 dates of each region *)
PooledDropsLastFour ==
    LET n == NRows(div_data) IN
    /\ NRows(Pooled) = 3 * (n - 4)
    /\ \A r \in RegionSet : \A t \in 1..n : (PooledRows(r, t) = {}) <=> (t > n - 4)

(* C11 as claimed: the pooled sample holds no null cell, holds a (region,   *)
(* date) row iff the region's forward growth and equity yield there are    *)
(* both non-null, and with fully observed (non-null) dividends and futures *)
(* over N >= 4 quarters has exactly 3*(N-4) rows, all but the last 4 dates *)
C11_PooledSampleAnyValues ==
    pc \in {"prepared", "fitted"} =>
        /\ PooledIsCompleteCases
        /\ (FullyObserved /\ NRows(div_data) >= 4) => PooledDropsLastFour

(* C11 amended: the same, the row count being claimed for fully observed   *)
(* and strictly positive dividends and futures over N >= 4 quarters.       *)
C11_PooledSampleCompleteCases ==
    pc \in {"prepared", "fitted"} =>
        /\ PooledIsCompleteCases
        /\ (FullyObserved /\ AllPositive /\ NRows(div_data) >= 4)
              => PooledDropsLastFour

C11_Witness ==
    /\ pc = "prepared"
    /\ NRows(div_data) = 6
    /\ FullyObserved /\ AllPositive
    /\ NRows(Pooled) = 6
    /\ \E i \in 1..NRows(Pooled) : PooledCell("div_growth", i) = Num(1)
    /\ \E i \in 1..NRows(Pooled) : PooledCell("equity_yield_2y", i) = <<2, 1, 2>>

(* C12: every pooled row has dummies in {0, 1}; eurostoxx_dummy is 1       *)
(* exactly on the Euro Stoxx rows and nikkei_dummy exactly on the Nikkei   *)
(* rows, the S&P 500 rows have both 0, and no row has both 1.              *)
C12_RegionDummies ==
    pc \in {"prepared", "fitted"} =>
        \A i \in 1..NRows(Pooled) :
            LET e == PooledCell("eurostoxx_dummy", i)
                k == PooledCell("nikkei_dummy", i)
                r == PooledCell("index", i)
            IN  /\ e \in {IntCell(0), IntCell(1)}
                /\ k \in {IntCell(0), IntCell(1)}
                /\ (e = IntCell(1)) <=> (r = StrCell("eurostoxx"))
                /\ (k = IntCell(1)) <=> (r = StrCell("nikkei"))
                /\ (r = StrCell("sp500")) <=> (e = IntCell(0) /\ k = IntCell(0))
                /\ ~(e = IntCell(1) /\ k = IntCell(1))

C12_Witness ==
    /\ pc = "prepared"
    /\ \A r \in RegionSet : \E i \in 1..NRows(Pooled) : PooledCell("index", i) = StrCell(r)
    /\ \E i \in 1..NRows(Pooled) :
          PooledCell("eurostoxx_dummy", i) = IntCell(1) /\ PooledCell("nikkei_dummy", i) = IntCell(0)
    /\ \E i \in 1..NRows(Pooled) :
          PooledCell("nikkei_dummy", i) = IntCell(1) /\ PooledCell("eurostoxx_dummy", i) = IntCell(0)

(* C13: when a region's series is entirely null the rows of the other      *)
(* regions stay in the pooled sample and the fit returns on them; the fit  *)
(* fails with InsufficientObservationsError iff the pooled sample is empty *)
C13_InsufficientObservationsIffEmpty ==
    pc = "fitted" =>
        /\ (regression.status = "InsufficientObservationsError") <=> (NRows(Pooled) = 0)
        /\ \A r \in RegionSet :
              ( /\ \A t \in 1..NRows(div_data) : IsNull(ColumnVals(div_data, DivName(r))[t])
                /\ NRows(Pooled) > 0 )
              => /\ PooledRows(r, 1) = {}
                 /\ \A q \in RegionSet \ {r} : PooledRows(q, 1) # {}
                 /\ regression.status = "ok"
                 /\ regression.nobs = NRows(Pooled)

-----------------------------------------------------------------------------
(* Properties of the pull script (SpecPull) *)

(* C14: each spreadsheet loader is called at most once; with the live      *)
(* source disabled no live fetch is made; once a live fetch has raised no  *)
(* live fetch is made again, the live fetch raises at most once and the    *)
(* run then goes through the fallback, calling a loader; a loader that     *)
(* raises ends the run with that error and nothing saved.                  *)
C14_SingleFallbackAttempt ==
    /\ [](calls.load_bbg_excel <= 1 /\ calls.load_dividend_excel <= 1)
    /\ [](~config_use_bbg => calls.live = 0)
    /\ [](calls.live_raised <= 1)
    /\ [][calls.live_raised > 0 => calls'.live = calls.live]_vars
    /\ []((pc = "done" /\ calls.live_raised > 0)
             => calls.load_bbg_excel + calls.load_dividend_excel >= 1)
    /\ [][ /\ ( /\ calls'.load_bbg_excel = calls.load_bbg_excel + 1
                /\ LoadBbgExcel(data_manual.index).status # "ok" )
              => /\ pc' = "done"
                 /\ pull_exit' = LoadBbgExcel(data_manual.index).status
                 /\ saved' = {}
           /\ ( /\ calls'.load_dividend_excel = calls.load_dividend_excel + 1
                /\ LoadDividendExcel(data_manual.dividend).status # "ok" )
              => /\ pc' = "done"
                 /\ pull_exit' = LoadDividendExcel(data_manual.dividend).status
                 /\ saved' = {}
         ]_vars

C14_Witness ==
    /\ pc = "done"
    /\ config_use_bbg
    /\ calls = [live |-> 3, live_raised |-> 1, load_bbg_excel |-> 0,
                load_dividend_excel |-> 1]
    /\ index_df.source = "bloomberg"
    /\ pull_exit = "FileNotFoundError"
    /\ saved = {}

(* C15: a file named bloomberg_<kind>_data.parquet holds a table fetched   *)
(* from the live source and a file named excel_<kind>_data.parquet a table *)
(* loaded from the spreadsheet, for both kinds and whatever fetch failed.  *)
C15_FileNamedAfterItsSource ==
    \A f \in saved :
        /\ f.file \in {RawFileName(TRUE, "index"), RawFileName(TRUE, "dividend")}
              => f.table.source = "bloomberg"
        /\ f.file \in {RawFileName(FALSE, "index"), RawFileName(FALSE, "dividend")}
              => f.table.source = "excel"

-----------------------------------------------------------------------------
(* Properties of the cleaner's file choice and column names (SpecClean) *)

(* the raw file of source bbg (TRUE: live, FALSE: spreadsheet) for kind k *)
ConfiguredFile(bbg, k) ==
    CASE bbg /\ k = "index"      -> "bloomberg_index_data.parquet"
      [] ~bbg /\ k = "index"     -> "excel_index_data.parquet"
      [] bbg /\ k = "dividend"   -> "bloomberg_dividend_data.parquet"
      [] ~bbg /\ k = "dividend"  -> "excel_dividend_data.parquet"

Exists(f) == f \in DOMAIN data_dir

CleanedName(raw) ==
    IF path \in {ConfiguredFile(TRUE, "index"), ConfiguredFile(FALSE, "index")}
    THEN IndexColumnMapping(raw)
    ELSE DividendHeuristic(DividendColumnMapping(raw))

(* C19: a returned cleaned table has one column per raw column, in place:  *)
(* a column the cleaner's mapping recognises under its semantic name, any  *)
(* other under its raw name; and no two raw columns under the same name.   *)
C19_OneColumnPerRawColumn ==
    cleaned.status = "ok" =>
        /\ NCols(cleaned.df) = NCols(df)
        /\ \A c \in 1..NCols(df) :
              cleaned.df.cols[c].name = CleanedName(df.cols[c].name)
        /\ \A c1, c2 \in 1..NCols(cleaned.df) :
              cleaned.df.cols[c1].name = cleaned.df.cols[c2].name => c1 = c2

-----------------------------------------------------------------------------
(* Properties of load_bbg_excel (SpecPull) *)

(* the live-source ticker of the series a header names: a region together *)
(* with 'yield' is that region's 30-year yield, a region alone its equity *)
(* index; any other header stays                                          *)
SeriesTicker(col) ==
    LET col_lower == Lower(col) IN
    IF Contains(col_lower, "yield")
    THEN (IF Contains(col_lower, "us") THEN "USGG30YR Index"
          ELSE IF Contains(col_lower, "germany") \/ Contains(col_lower, "eu")
               THEN "GDBR30 Index"
          ELSE IF Contains(col_lower, "japan") THEN "GJGB30 Index"
          ELSE col)
    ELSE IF Contains(col_lower, "s&p") \/ Contains(col_lower, "sp500")
             \/ Contains(col_lower, "sp 500") THEN "SPX Index"
    ELSE IF Contains(col_lower, "euro") \/ Contains(col_lower, "stoxx") THEN "SX5E Index"
    ELSE IF Contains(col_lower, "nikkei") \/ Contains(col_lower, "japan") THEN "NKY Index"
    ELSE col

(* C20: the table load_bbg_excel returns labels each data column with the *)
(* ticker of the series its header names (a header naming Japan and       *)
(* 'yield' becomes 'GJGB30 Index'), and no two columns of different       *)
(* headers carry the same label.                                          *)
C20_HeadersBecomeTickers ==
    index_df.source = "excel" =>
        LET cols == DataColumns(data_manual.index.headers) IN
        /\ Len(index_df.columns) = Len(cols)
        /\ \A k \in 1..Len(cols) : index_df.columns[k] = SeriesTicker(cols[k])
        /\ \A j, k \in 1..Len(cols) :
              index_df.columns[j] = index_df.columns[k] => j = k

-----------------------------------------------------------------------------
(* Properties of the cleaning script (SpecScript) *)

(* the artifacts of the first pass that the run is to produce *)
ScriptArtifacts ==
    {ArtifactName("paper", "index"), ArtifactName("paper", "dividend"),
     ArtifactName("paper", "yields"), ArtifactName("paper", "combine")}

(* a cleaning step has raised *)
StepFailed(o) == o.status \notin {"none", "ok"}

(* C17: a failure raised by a cleaning step of the script (a cleaner,     *)
(* calculate_yields, combine_data) is never caught: once a step has       *)
(* raised, the run has ended with that failure.                           *)
C17_StepFailureEndsRun ==
    \A o \in {cleaned, yields_df, combined_df} :
        StepFailed(o) => (pc = "exit" /\ script_exit = o.status)

(* C18: a run of the cleaning script that has ended has either written    *)
(* all of its artifacts (cleaned index, cleaned dividend, calculated      *)
(* yields, combined table) or has aborted having written none of them.    *)
C18_AllArtifactsOrNone ==
    pc = "exit" =>
        \/ script_exit = "ok" /\ ScriptArtifacts \subseteq artifacts
        \/ script_exit # "ok" /\ artifacts = {}

-----------------------------------------------------------------------------
(* Properties of the fitted line and of figure 5 (SpecFigures) *)

(* C22: the predicted growth at a yield y is intercept + yield_slope * y,  *)
(* with the intercept and slope main() returns; no region dummy            *)
(* coefficient enters, so equal yields get equal predictions whatever the  *)
(* region.                                                                 *)
C22_PredictionIgnoresDummies ==
    pc # "plot" =>
        LET r == MainReturn(params, regression) IN
        /\ Len(y_pred) = Len(x_range)
        /\ \A k \in 1..Len(y_pred) :
              y_pred[k] = FloatAdd(Num(r.intercept),
                                   FloatMul(Num(r.equity_yield_coef), x_range[k]))
        /\ \A j, k \in 1..Len(y_pred) : x_range[j] = x_range[k] => y_pred[j] = y_pred[k]

C22_Witness ==
    /\ pc # "plot"
    /\ params.eurostoxx_dummy # 0
    /\ params.nikkei_dummy # 0
    /\ params.equity_yield_2y # 0
    /\ \E k \in 1..Len(y_pred) : NotNull(y_pred[k]) /\ x_range[k] # Num(0)

(* the fixed constant of each region, in hundredths *)
RegionMultiplier(region) ==
    IF region = "US" THEN Normalise(67, 100)
    ELSE IF region = "EU" THEN Normalise(33, 100)
    ELSE Normalise(46, 100)

(* C23: for each region whose forecast column is present, fig5_data holds  *)
(* a GDP-growth series on the forecast's date index, equal at each date to *)
(* the forecast times the region's constant (US 0.67, EU 0.33, JP 0.46)    *)
(* and null exactly where the forecast is null; a region without a         *)
(* forecast column gets no output column.                                  *)
C23_GdpGrowthIsScaledForecast ==
    fig5_data.status = "ok" =>
        LET f == forecast_file.df
            g == fig5_data.df
        IN  /\ g.idx = f.idx
            /\ \A k \in 1..Len(Fig5Regions) :
                  LET region == Fig5Regions[k] IN
                  IF HasColumn(f, ExpectedDivGrowthName(region))
                  THEN /\ HasColumn(g, GdpGrowthName(region))
                       /\ LET x == ColumnVals(f, ExpectedDivGrowthName(region))
                              y == ColumnVals(g, GdpGrowthName(region))
                          IN  /\ Len(y) = Len(x)
                              /\ \A i \in 1..Len(x) :
                                    /\ IsNull(y[i]) <=> IsNull(x[i])
                                    /\ NotNull(x[i]) =>
                                          y[i] = FloatMul(x[i], RegionMultiplier(region))
                  ELSE /\ ~HasColumn(g, GdpGrowthName(region))
                       /\ ~HasColumn(g, DividendGrowthName(region))

C23_Witness ==
    /\ fig5_data.status = "ok"
    /\ HasColumn(forecast_file.df, ExpectedDivGrowthName("EU"))
    /\ ~HasColumn(forecast_file.df, ExpectedDivGrowthName("US"))
    /\ LET x == ColumnVals(forecast_file.df, ExpectedDivGrowthName("EU")) IN
       /\ \E i \in 1..Len(x) : IsNull(x[i])
       /\ \E i \in 1..Len(x) : NotNull(x[i])
    /\ NCols(fig5_data.df) = 2

-----------------------------------------------------------------------------
(* Properties of the return table and of the test imports (SpecTests) *)

(* C26: clean_data provides resample_to_quarterly: the import of that     *)
(* name by test_clean binds it.                                            *)
C26_ResampleToQuarterlyProvided ==
    imported.status # "none" => "resample_to_quarterly" \in imported.names

(* the table the returns are computed over: the rows without a null *)
ReturnBase == Dropna(YieldTransform(index_data_clean.df))

(* C27: the table calc_pct_returns returns has the rows of the price table *)
(* that have no null; its first row is 1 in every column and its row at a  *)
(* later date t is price[t] / price[first date].                           *)
C27_CumulativeReturnsStartAtOne ==
    cum_returns.status = "ok" =>
        LET c == cum_returns.df IN
        /\ c.idx = ReturnBase.idx
        /\ \A k \in 1..NCols(c) : \A t \in 1..NRows(c) :
              c.cols[k].vals[t] =
                 IF t = 1 THEN Num(1)
                 ELSE FloatDiv(ReturnBase.cols[k].vals[t], ReturnBase.cols[k].vals[1])

-----------------------------------------------------------------------------
(* Properties of main() (SpecMain) *)

UpstreamOutputs ==
    {CleanerPath(b, kind) : b \in BOOLEAN, kind \in {"index", "dividend"}}
       \cup {ArtifactName(pass, stage) : pass \in Passes,
                 stage \in {"index", "dividend", "yields", "combine"}}
       \cup {"clean/merged_dividend_data_quarterly.parquet"}

(* C25: the tables the pooled sample is fitted on come from the outputs of *)
(* the loading and cleaning stages: the loaders of main() read those files *)
(* and nothing else.                                                       *)
C25_SampleFromUpstreamOutputs ==
    pc \in {"loaded", "yields", "prepared", "fitted"} =>
        main_reads # {} /\ main_reads \subseteq UpstreamOutputs

-----------------------------------------------------------------------------
(* Properties of pull runs followed by cleaning (SpecRuns) *)

(* C28: when the cleaners run after a pull run that ended normally (by a   *)
(* live fetch or by the fallback), the raw file each of them reads is one  *)
(* that this most recent pull run wrote.                                   *)
C28_CleanReadsLatestPull ==
    (pc = "cleaned" /\ pull_exit = "ok") =>
        \A kind \in Kinds : clean_read[kind] \in last_written

-----------------------------------------------------------------------------
(* Properties of the task graph (SpecDoit) *)

(* C24: the action of the cleaning task runs only after the pull task has  *)
(* run successfully and written raw files the cleaners read.               *)
C24_CleanRunsAfterPull ==
    status["clean_bloomberg_data"] \in {"ok", "failed"} =>
        /\ status["pull_bloomberg"] = "ok"
        /\ \E b \in BOOLEAN : RawFileName(b, "index") \in disk

(* C29: after the action of a task has completed successfully every file   *)
(* the task declares as a target exists.                                   *)
C29_TargetsExistAfterSuccess ==
    \A t \in TaskSet : status[t] = "ok" => Targets(t) \subseteq disk

(* the data files among the dependencies *)
DataDeps(t) == FileDep(t) \ SourceFiles

(* C30: a run that starts without any of the data files the tasks depend  *)
(* on, from the source files and raw inputs alone, never finds a           *)
(* dependency missing: each such file is produced by a task that runs      *)
(* first, so every task named can run.                                     *)
C30_DependenciesAreProduced ==
    (\A t \in TaskSet : DataDeps(t) \cap disk = {}) =>
        \A t \in TaskSet : status[t] # "DependencyError"

=============================================================================
